---------------------------- MODULE Spec2Model ----------------------------
(***************************************************************************)
(* A model of the real-time simulation loop of the game: the Actor/Player/ *)
(* Enemy entity model, the enemy AI state machine, the skill system, the   *)
(* EnemyManager's wave spawning and the GameController's frame.            *)
(*                                                                         *)
(* Units.  Coordinates, sizes and ranges are whole pixels.  A deltaTime is *)
(* an integer number of 1/60 s ("frames"), so the source's `deltaTime` in  *)
(* seconds is dt/60 and every timer kept in seconds is kept here in 1/60 s.*)
(* A Player's speed is in pixels per frame, as in the source.  An Enemy's  *)
(* speed and baseSpeed are kept in quarter-pixels per second (the source's *)
(* 1.5 is 6, 10 is 40) and its chaseSpeed multiplier in halves (1.5 is 3,  *)
(* 10 is 20), so that the products the source computes in floating point   *)
(* are integers here.  Skill timestamps are milliseconds, as Date.now().   *)
(***************************************************************************)
EXTENDS Integers, Sequences, FiniteSets, TLC

VARIABLES
    enemy,      \* the Enemy under test (SpecHealth, SpecEnemy, SpecPlayer)
    player,     \* the Player
    last,       \* the last operation applied: its name, its arguments and
                \* what it returned
    hist,       \* history a property refers to: whether and where the enemy
                \* was killed, its waypoint list and the time since a
                \* SkeletonWarrior's latest hit (SpecEnemy), the player's
                \* position before its update (SpecPlayer), the last
                \* successful use of the skill (SpecSkill)
    skills,     \* the Skill objects, by name, and the SkillManager's slots
    now,        \* Date.now()
    game        \* the GameController and its EnemyManager (SpecGame), or the
                \* UI and the player state it renders (SpecInventory)

vars == <<enemy, player, last, hist, skills, now, game>>

-----------------------------------------------------------------------------
(* Arithmetic helpers (Math.max, Math.min, Math.abs, Math.sqrt)            *)

Max(a, b) == IF a >= b THEN a ELSE b

Min(a, b) == IF a <= b THEN a ELSE b

Abs(a) == IF a < 0 THEN -a ELSE a

Sign(a) == IF a < 0 THEN -1 ELSE IF a > 0 THEN 1 ELSE 0

RECURSIVE SqrtBetween(_, _, _)
SqrtBetween(n, lo, hi) ==
    \* the largest r in lo..hi with r*r <= n
    IF lo >= hi THEN lo
    ELSE LET mid == (lo + hi + 1) \div 2
         IN  IF mid * mid <= n THEN SqrtBetween(n, mid, hi)
                               ELSE SqrtBetween(n, lo, mid - 1)

\* Math.sqrt on a sum of squares; exact on the axis-aligned and 3-4-5
\* displacements the specifications start from, truncated otherwise (the
\* search stops at the largest root a 32-bit product allows).
Sqrt(n) == SqrtBetween(n, 0, Min(n, 46340))

\* a * b / c for c > 0, truncated toward zero (exact when c divides a * b)
MulDiv(a, b, c) == Sign(a) * Sign(b) * ((Abs(a) * Abs(b)) \div c)

-----------------------------------------------------------------------------
(* GameMap and the collision probe                                         *)

\* tiles[tileY][tileX] === TileType.TREE, for an in-map tile
IsTree(gameMap, tileX, tileY) == <<tileX, tileY>> \in gameMap.trees

\* createGameMap's border: row 0, row height-1, column 0, column width-1
BorderTrees(width, height) ==
    {<<x, y>> \in (0..(width - 1)) \X (0..(height - 1)) :
        x = 0 \/ x = width - 1 \/ y = 0 \/ y = height - 1}

\* the far edges taken as exclusive: the last pixel is x + width - 1
checkCollisionWithMap_Exclusive(x, y, width, height, gameMap) ==
    LET leftTile   == x \div gameMap.tileSize
        rightTile  == (x + width - 1) \div gameMap.tileSize
        topTile    == y \div gameMap.tileSize
        bottomTile == (y + height - 1) \div gameMap.tileSize
    IN  \E tileY \in topTile..bottomTile : \E tileX \in leftTile..rightTile :
            /\ ~(tileY < 0 \/ tileY >= gameMap.height \/ tileX < 0 \/ tileX >= gameMap.width)
            /\ IsTree(gameMap, tileX, tileY)

checkCollisionWithMap(x, y, width, height, gameMap) ==
    LET leftTile   == x \div gameMap.tileSize
        rightTile  == (x + width) \div gameMap.tileSize
        topTile    == y \div gameMap.tileSize
        bottomTile == (y + height) \div gameMap.tileSize
    IN  \E tileY \in topTile..bottomTile : \E tileX \in leftTile..rightTile :
            /\ ~(tileY < 0 \/ tileY >= gameMap.height \/ tileX < 0 \/ tileX >= gameMap.width)
            /\ IsTree(gameMap, tileX, tileY)

\* The optional checkCollision argument: a probe is either absent or the
\* closure over a GameMap that GameController.update builds.
NoProbe == [present |-> FALSE]

MapProbe(gameMap) == [present |-> TRUE, gameMap |-> gameMap]

Probe(probe, x, y, width, height) ==
    checkCollisionWithMap(x, y, width, height, probe.gameMap)

-----------------------------------------------------------------------------
(* Player: health and input (Player.ts)                                    *)

NoInput ==
    [up |-> FALSE, down |-> FALSE, left |-> FALSE, right |-> FALSE,
     action |-> FALSE,
     skill1 |-> FALSE, skill2 |-> FALSE, skill3 |-> FALSE, skill4 |-> FALSE]

\* new Player(id, x, y, width, height, speed): the field initialisers and
\* the Actor constructor
Player_new(id, x, y, width, height, speed) ==
    [id |-> id, x |-> x, y |-> y, width |-> width, height |-> height,
     speed |-> speed, direction |-> "DOWN", active |-> TRUE,
     health |-> 100, maxHealth |-> 100, input |-> NoInput]

Player_isAlive(p) == p.health > 0

Player_setHealth(p, value) ==
    [p EXCEPT !.health = Max(0, Min(value, p.maxHealth))]

Player_setMaxHealth(p, value) ==
    [p EXCEPT !.maxHealth = value,
              !.health = IF p.health > value THEN value ELSE p.health]

\* mutant: takeDamage without the floor at 0
Player_takeDamage_NoFloor(p, amount) ==
    [p EXCEPT !.health = p.health - amount]

Player_takeDamage(p, amount) ==
    [p EXCEPT !.health = Max(0, p.health - amount)]

Player_heal(p, amount) ==
    [p EXCEPT !.health = Min(p.maxHealth, p.health + amount)]

-----------------------------------------------------------------------------
(* Enemy (Enemy.ts) and its subclasses                                     *)

EnemyState == {"IDLE", "PATROLLING", "CHASING", "ATTACKING", "STUNNED", "DEAD"}

\* new Enemy(id, x, y, width, height, speed, imageSrc, detectionRange, health)
\* kind names the class; attackCooldown is SkeletonWarrior's field.
Enemy_new(kind, id, x, y, width, height, speed, detectionRange, health) ==
    [kind |-> kind, id |-> id, x |-> x, y |-> y,
     width |-> width, height |-> height,
     speed |-> speed, direction |-> "DOWN", active |-> TRUE,
     health |-> health, maxHealth |-> health,
     attackDamage |-> 10, attackRange |-> 32, detectionRange |-> detectionRange,
     state |-> "IDLE", isAggressive |-> TRUE,
     chaseSpeed |-> 3, baseSpeed |-> speed,
     patrolPoints |-> <<>>, currentPatrolIndex |-> 0,
     patrolWaitTime |-> 60, patrolTimer |-> 0,
     attackCooldown |-> 0]

\* new BasicEnemy(x, y)
BasicEnemy_new(x, y) ==
    [Enemy_new("BasicEnemy", "basic-enemy", x, y, 32, 32, 6, 150, 100)
        EXCEPT !.attackDamage = 10, !.attackRange = 30]

\* new SkeletonWarrior(x, y)
SkeletonWarrior_new(x, y) ==
    [Enemy_new("SkeletonWarrior", "skeleton-warrior", x, y, 48, 48, 12, 180, 150)
        EXCEPT !.attackDamage = 20, !.attackRange = 40, !.chaseSpeed = 20]

Enemy_isAlive(e) == e.health > 0

Enemy_setHealth(e, value) ==
    LET h == Max(0, Min(value, e.maxHealth))
    IN  [e EXCEPT !.health = h,
                  !.state = IF h <= 0 THEN "DEAD" ELSE e.state]

Enemy_setMaxHealth(e, value) ==
    [e EXCEPT !.maxHealth = value,
              !.health = IF e.health > value THEN value ELSE e.health]

\* DEAD only once health has gone below 0
Enemy_takeDamage_BelowZero(e, amount) ==
    LET h == Max(0, e.health - amount)
    IN  [e EXCEPT !.health = h, !.state = IF h < 0 THEN "DEAD" ELSE e.state]

Enemy_takeDamage(e, amount) ==
    LET h == Max(0, e.health - amount)
    IN  [e EXCEPT !.health = h,
                  !.state = IF h <= 0 THEN "DEAD" ELSE e.state]

Enemy_setState(e, value) == [e EXCEPT !.state = value]

Enemy_setAttackDamage(e, value) == [e EXCEPT !.attackDamage = value]

Enemy_setPatrolPoints(e, points) ==
    [e EXCEPT !.patrolPoints = points,
              !.state = IF Len(points) > 0 THEN "PATROLLING" ELSE e.state]

DistanceSquared(e, p) ==
    (p.x - e.x) * (p.x - e.x) + (p.y - e.y) * (p.y - e.y)

\* the detection that does not ask whether the player is alive
Enemy_canDetectPlayer_DeadOrAlive(e, p) ==
    DistanceSquared(e, p) <= e.detectionRange * e.detectionRange

\* the detection that ignores the distance
Enemy_canDetectPlayer_AnyDistance(e, p) == Player_isAlive(p)

Enemy_canDetectPlayer(e, p) ==
    /\ Player_isAlive(p)
    /\ DistanceSquared(e, p) <= e.detectionRange * e.detectionRange

Enemy_canAttackPlayer(e, p) ==
    /\ Player_isAlive(p)
    /\ DistanceSquared(e, p) <= e.attackRange * e.attackRange

\* speed * deltaTime in pixels: speed in quarter-pixels per second, dt in 1/60 s
MoveDistance(speed, dt) == (speed * dt) \div 240

\* this._baseSpeed * this._chaseSpeed, the multiplier held in halves
ChaseSpeedOf(e) == (e.baseSpeed * e.chaseSpeed) \div 2

\* the facing chosen from the normalised displacement (dx, dy)/distance
FacingOf(dx, dy) ==
    IF Abs(dx) > Abs(dy)
    THEN (IF dx > 0 THEN "RIGHT" ELSE "LEFT")
    ELSE (IF dy > 0 THEN "DOWN" ELSE "UP")

\* the step taken away from the player instead of toward it
Enemy_moveTowardPlayer_Away(e, p, dt, speed) ==
    LET dx == p.x - e.x
        dy == p.y - e.y
        distance == Sqrt(dx * dx + dy * dy)
        moveDistance == MoveDistance(speed, dt)
    IN  IF ~Player_isAlive(p) THEN e
        ELSE IF dx * dx + dy * dy <= 0 THEN e
        ELSE [e EXCEPT !.x = e.x - MulDiv(dx, moveDistance, distance),
                       !.y = e.y - MulDiv(dy, moveDistance, distance),
                       !.direction = FacingOf(dx, dy)]

Enemy_moveTowardPlayer(e, p, dt, speed) ==
    LET dx == p.x - e.x
        dy == p.y - e.y
        distance == Sqrt(dx * dx + dy * dy)
        moveDistance == MoveDistance(speed, dt)
    IN  IF ~Player_isAlive(p) THEN e
        ELSE IF dx * dx + dy * dy <= 0 THEN e
        ELSE [e EXCEPT !.x = e.x + MulDiv(dx, moveDistance, distance),
                       !.y = e.y + MulDiv(dy, moveDistance, distance),
                       !.direction = FacingOf(dx, dy)]

\* Enemy.patrol.  With an index past the end of the list the target read is
\* undefined and target.x throws before anything is assigned.
Enemy_patrol(e, dt, probe) ==
    IF Len(e.patrolPoints) = 0 THEN e
    ELSE IF e.patrolTimer > 0 THEN [e EXCEPT !.patrolTimer = e.patrolTimer - dt]
    ELSE IF e.currentPatrolIndex >= Len(e.patrolPoints) THEN e
    ELSE
      LET target == e.patrolPoints[e.currentPatrolIndex + 1]
          dx == target.x - e.x
          dy == target.y - e.y
          distanceSquared == dx * dx + dy * dy
          distance == Sqrt(distanceSquared)
          moveDistance == MoveDistance(e.speed, dt)
          newX == e.x + MulDiv(dx, moveDistance, distance)
          newY == e.y + MulDiv(dy, moveDistance, distance)
          canMoveX == IF probe.present
                      THEN ~Probe(probe, newX, e.y, e.width, e.height) ELSE TRUE
          canMoveY == IF probe.present
                      THEN ~Probe(probe, e.x, newY, e.width, e.height) ELSE TRUE
      IN  IF distanceSquared < 25
          THEN [e EXCEPT !.currentPatrolIndex =
                            (e.currentPatrolIndex + 1) % Len(e.patrolPoints),
                         !.patrolTimer = e.patrolWaitTime]
          ELSE [e EXCEPT !.x = IF canMoveX THEN newX ELSE e.x,
                         !.y = IF canMoveY THEN newY ELSE e.y,
                         !.direction = FacingOf(dx, dy)]

\* the attack that lands its damage twice
Enemy_attackPlayer_Twice(e, p) ==
    IF ~Enemy_canAttackPlayer(e, p) \/ ~Player_isAlive(p)
    THEN [enemy |-> e, player |-> p, damage |-> 0]
    ELSE [enemy |-> e,
          player |-> Player_takeDamage(Player_takeDamage(p, e.attackDamage),
                                       e.attackDamage),
          damage |-> e.attackDamage]

\* Enemy.attackPlayer: the pair of the enemy and the player after the call
Enemy_attackPlayer(e, p) ==
    IF ~Enemy_canAttackPlayer(e, p) \/ ~Player_isAlive(p)
    THEN [enemy |-> e, player |-> p, damage |-> 0]
    ELSE [enemy |-> e, player |-> Player_takeDamage(p, e.attackDamage),
          damage |-> e.attackDamage]

\* the attack without the test of the cooldown
SkeletonWarrior_attackPlayer_NoCooldown(e, p) ==
    LET r == Enemy_attackPlayer(e, p)
    IN  IF r.damage > 0
        THEN [r EXCEPT !.enemy.attackCooldown = 60]
        ELSE r

\* SkeletonWarrior.attackPlayer
SkeletonWarrior_attackPlayer(e, p) ==
    IF e.attackCooldown > 0
    THEN [enemy |-> e, player |-> p, damage |-> 0]
    ELSE LET r == Enemy_attackPlayer(e, p)
         IN  IF r.damage > 0
             THEN [r EXCEPT !.enemy.attackCooldown = 60]
             ELSE r

\* this.attackPlayer(player), dispatched on the class
AttackPlayer(e, p) ==
    IF e.kind = "SkeletonWarrior" THEN SkeletonWarrior_attackPlayer(e, p)
                                  ELSE Enemy_attackPlayer(e, p)

\* the revert that forgets the waypoints
RevertState_Idle(e) == "IDLE"

RevertState(e) == IF Len(e.patrolPoints) > 0 THEN "PATROLLING" ELSE "IDLE"

\* Enemy.update(deltaTime, player?, checkCollision?): the enemy and the
\* player after the call.  hasPlayer = FALSE is the call without a player.
Enemy_update(e, dt, hasPlayer, p, probe) ==
    LET same == [enemy |-> e, player |-> p]
        detects == hasPlayer /\ e.isAggressive /\ Enemy_canDetectPlayer(e, p)
        chase(en) == [en EXCEPT !.state = "CHASING",
                                !.speed = ChaseSpeedOf(e)]
    IN  IF ~e.active \/ ~Enemy_isAlive(e) THEN same
        ELSE CASE e.state = "IDLE" ->
                    IF detects THEN [same EXCEPT !.enemy = chase(e)]
                    ELSE IF Len(e.patrolPoints) > 0
                         THEN [same EXCEPT !.enemy.state = "PATROLLING"]
                         ELSE same
               [] e.state = "PATROLLING" ->
                    LET moved == Enemy_patrol(e, dt, probe)
                        \* patrol threw: update is left at once
                        thrown == /\ Len(e.patrolPoints) > 0
                                  /\ e.patrolTimer <= 0
                                  /\ e.currentPatrolIndex >= Len(e.patrolPoints)
                    IN  IF thrown THEN same
                        ELSE IF hasPlayer /\ moved.isAggressive /\ Enemy_canDetectPlayer(moved, p)
                        THEN [same EXCEPT !.enemy = chase(moved)]
                        ELSE [same EXCEPT !.enemy = moved]
               [] e.state = "CHASING" ->
                    IF ~hasPlayer \/ ~Player_isAlive(p) \/ ~Enemy_canDetectPlayer(e, p)
                    THEN [same EXCEPT !.enemy.state = RevertState(e),
                                      !.enemy.speed = e.baseSpeed]
                    ELSE IF Enemy_canAttackPlayer(e, p)
                         THEN [same EXCEPT !.enemy.state = "ATTACKING"]
                         ELSE [same EXCEPT !.enemy =
                                  Enemy_moveTowardPlayer(e, p, dt, ChaseSpeedOf(e))]
               [] e.state = "ATTACKING" ->
                    IF ~hasPlayer \/ ~Player_isAlive(p)
                    THEN [same EXCEPT !.enemy.state = RevertState(e),
                                      !.enemy.speed = e.baseSpeed]
                    ELSE IF ~Enemy_canAttackPlayer(e, p)
                         THEN [same EXCEPT !.enemy.state = "CHASING"]
                         ELSE LET r == AttackPlayer(e, p)
                              IN  [enemy |-> r.enemy, player |-> r.player]
               [] e.state = "STUNNED" -> same
               [] e.state = "DEAD" -> [same EXCEPT !.enemy.active = FALSE]

\* SkeletonWarrior.update: the cooldown, then the parent's update
SkeletonWarrior_update(e, dt, hasPlayer, p, probe) ==
    LET cooled == IF e.attackCooldown > 0
                  THEN [e EXCEPT !.attackCooldown = Max(0, e.attackCooldown - dt)]
                  ELSE e
    IN  Enemy_update(cooled, dt, hasPlayer, p, probe)

\* enemy.update(...), dispatched on the class
Update(e, dt, hasPlayer, p, probe) ==
    IF e.kind = "SkeletonWarrior" THEN SkeletonWarrior_update(e, dt, hasPlayer, p, probe)
                                  ELSE Enemy_update(e, dt, hasPlayer, p, probe)

-----------------------------------------------------------------------------
(* Skill, BasicAttack and SkillManager                                     *)

\* A Skill object.  kind "BasicAttack" is the BasicAttack subclass; any other
\* kind is a subclass whose execute() touches nothing and returns what the
\* caller of the model's operators passes as `effect`.
Skill_new(kind, cooldown, damage, range, width) ==
    [kind |-> kind, cooldown |-> cooldown, lastUsed |-> 0,
     damage |-> damage, range |-> range, width |-> width]

BasicAttack_new == Skill_new("BasicAttack", 500, 10, 32, 32)

\* on cooldown also when exactly `cooldown` ms have passed
Skill_isOnCooldown_Inclusive(s, t) == t - s.lastUsed <= s.cooldown

\* Skill.isOnCooldown at Date.now() = t
Skill_isOnCooldown(s, t) == t - s.lastUsed < s.cooldown

Skill_getRemainingCooldown(s, t) ==
    IF ~Skill_isOnCooldown(s, t) THEN 0 ELSE s.cooldown - (t - s.lastUsed)

\* BasicAttack.calculateAttackArea (the halves are whole for the sizes used)
BasicAttack_calculateAttackArea(s, p) ==
    CASE p.direction = "UP" ->
            [x |-> p.x - (s.width - p.width) \div 2, y |-> p.y - s.range,
             width |-> s.width, height |-> s.range]
      [] p.direction = "DOWN" ->
            [x |-> p.x - (s.width - p.width) \div 2, y |-> p.y + p.height,
             width |-> s.width, height |-> s.range]
      [] p.direction = "LEFT" ->
            [x |-> p.x - s.range, y |-> p.y - (s.width - p.height) \div 2,
             width |-> s.range, height |-> s.width]
      [] p.direction = "RIGHT" ->
            [x |-> p.x + p.width, y |-> p.y - (s.width - p.height) \div 2,
             width |-> s.range, height |-> s.width]

BasicAttack_isEnemyInAttackArea(e, attackArea) ==
    /\ e.x < attackArea.x + attackArea.width
    /\ e.x + e.width > attackArea.x
    /\ e.y < attackArea.y + attackArea.height
    /\ e.y + e.height > attackArea.y

\* the attack reporting success only when it hit something (return hitAny)
BasicAttack_execute_HitOrFail(s, p, hasEnemies, enemies) ==
    IF ~hasEnemies \/ Len(enemies) = 0
    THEN [enemies |-> enemies, success |-> TRUE]
    ELSE LET attackArea == BasicAttack_calculateAttackArea(s, p)
         IN  [enemies |->
                 [i \in 1..Len(enemies) |->
                     IF BasicAttack_isEnemyInAttackArea(enemies[i], attackArea)
                     THEN Enemy_takeDamage(enemies[i], s.damage)
                     ELSE enemies[i]],
              success |-> \E i \in 1..Len(enemies) :
                             BasicAttack_isEnemyInAttackArea(enemies[i], attackArea)]

\* BasicAttack.execute: every enemy in the attack area takes the damage; the
\* attack always reports success
BasicAttack_execute(s, p, hasEnemies, enemies) ==
    IF ~hasEnemies \/ Len(enemies) = 0
    THEN [enemies |-> enemies, success |-> TRUE]
    ELSE LET attackArea == BasicAttack_calculateAttackArea(s, p)
         IN  [enemies |->
                 [i \in 1..Len(enemies) |->
                     IF BasicAttack_isEnemyInAttackArea(enemies[i], attackArea)
                     THEN Enemy_takeDamage(enemies[i], s.damage)
                     ELSE enemies[i]],
              success |-> TRUE]

\* this.execute(player, ctx, target, params), dispatched on the class
Skill_execute(s, p, hasEnemies, enemies, effect) ==
    IF s.kind = "BasicAttack" THEN BasicAttack_execute(s, p, hasEnemies, enemies)
    ELSE [enemies |-> enemies, success |-> effect]

\* lastUsed stamped after every execute(), whatever it reported
Skill_use_AlwaysStamps(s, p, t, hasEnemies, enemies, effect) ==
    IF Skill_isOnCooldown(s, t)
    THEN [skill |-> s, enemies |-> enemies, result |-> FALSE]
    ELSE LET r == Skill_execute(s, p, hasEnemies, enemies, effect)
         IN  [skill |-> [s EXCEPT !.lastUsed = t],
              enemies |-> r.enemies,
              result |-> r.success]

\* Skill.use at Date.now() = t (one reading of the clock for the whole call):
\* the skill, the enemies and the value returned
Skill_use(s, p, t, hasEnemies, enemies, effect) ==
    IF Skill_isOnCooldown(s, t)
    THEN [skill |-> s, enemies |-> enemies, result |-> FALSE]
    ELSE LET r == Skill_execute(s, p, hasEnemies, enemies, effect)
         IN  [skill |-> IF r.success THEN [s EXCEPT !.lastUsed = t] ELSE s,
              enemies |-> r.enemies,
              result |-> r.success]

\* The skill objects and the SkillManager over them: `objects` maps an
\* object's name to its state, `ids` is the _skills map (id to object name)
\* and `equipped` the _equippedSkills array ("null" for an empty slot).
\* SkillManager's constructor adds a BasicAttack as 'basicAttack' and equips
\* it in slot 0.
SkillManager_new ==
    [objects  |-> [o \in {"basicAttack"} |-> BasicAttack_new],
     ids      |-> [id \in {"basicAttack"} |-> "basicAttack"],
     equipped |-> <<"basicAttack">>]

\* _maxEquippedSkills
MaxEquippedSkills == 4

\* equipSkill without the upper bound on the slot
SkillManager_equipSkill_AnySlot(m, id, slot) ==
    IF slot < 0 THEN [manager |-> m, result |-> FALSE]
    ELSE IF id \notin DOMAIN m.ids THEN [manager |-> m, result |-> FALSE]
    ELSE LET padded == [i \in 1..Max(Len(m.equipped), slot + 1) |->
                           IF i <= Len(m.equipped) THEN m.equipped[i] ELSE "null"]
         IN  [manager |-> [m EXCEPT !.equipped = [padded EXCEPT ![slot + 1] = m.ids[id]]],
              result |-> TRUE]

\* SkillManager.equipSkill(id, slot): the manager and the value returned
SkillManager_equipSkill(m, id, slot) ==
    IF slot < 0 \/ slot >= MaxEquippedSkills THEN [manager |-> m, result |-> FALSE]
    ELSE IF id \notin DOMAIN m.ids THEN [manager |-> m, result |-> FALSE]
    ELSE LET padded == [i \in 1..Max(Len(m.equipped), slot + 1) |->
                           IF i <= Len(m.equipped) THEN m.equipped[i] ELSE "null"]
         IN  [manager |-> [m EXCEPT !.equipped = [padded EXCEPT ![slot + 1] = m.ids[id]]],
              result |-> TRUE]

\* SkillManager.useSkill(slot, ctx, target): the manager, the enemies and the
\* value returned
SkillManager_useSkill(m, slot, p, t, hasEnemies, enemies, effect) ==
    LET none == [manager |-> m, enemies |-> enemies, result |-> FALSE]
    IN  IF slot < 0 \/ slot >= Len(m.equipped) THEN none
        ELSE IF m.equipped[slot + 1] = "null" THEN none
        ELSE LET o == m.equipped[slot + 1]
                 r == Skill_use(m.objects[o], p, t, hasEnemies, enemies, effect)
             IN  [manager |-> [m EXCEPT !.objects[o] = r.skill],
                  enemies |-> r.enemies,
                  result |-> r.result]

-----------------------------------------------------------------------------
(* Player.update                                                           *)

\* the movement of the older updatePlayerPosition: one probe of (x+dx, y+dy)
Player_move_Combined(p, dx, dy, probe) ==
    IF dx = 0 /\ dy = 0 THEN p
    ELSE IF ~probe.present THEN [p EXCEPT !.x = p.x + dx, !.y = p.y + dy]
    ELSE IF ~Probe(probe, p.x + dx, p.y + dy, p.width, p.height)
         THEN [p EXCEPT !.x = p.x + dx, !.y = p.y + dy]
         ELSE p

\* the movement with each axis probed from the starting position
Player_move_EachFromStart(p, dx, dy, probe) ==
    IF dx = 0 /\ dy = 0 THEN p
    ELSE IF ~probe.present THEN [p EXCEPT !.x = p.x + dx, !.y = p.y + dy]
    ELSE [p EXCEPT
            !.x = IF ~Probe(probe, p.x + dx, p.y, p.width, p.height)
                  THEN p.x + dx ELSE p.x,
            !.y = IF ~Probe(probe, p.x, p.y + dy, p.width, p.height)
                  THEN p.y + dy ELSE p.y]

\* "Try to move if we have movement": X against the probe, then Y against the
\* probe at the X just decided
Player_move(p, dx, dy, probe) ==
    IF dx = 0 /\ dy = 0 THEN p
    ELSE IF ~probe.present THEN [p EXCEPT !.x = p.x + dx, !.y = p.y + dy]
    ELSE LET newX == p.x + dx
             x1   == IF ~Probe(probe, newX, p.y, p.width, p.height) THEN newX ELSE p.x
             newY == p.y + dy
             y1   == IF ~Probe(probe, x1, newY, p.width, p.height) THEN newY ELSE p.y
         IN  [p EXCEPT !.x = x1, !.y = y1]

\* the facing after the four input tests, in the source's order
Player_facing(p) ==
    IF p.input.right THEN "RIGHT"
    ELSE IF p.input.left THEN "LEFT"
    ELSE IF p.input.down THEN "DOWN"
    ELSE IF p.input.up THEN "UP"
    ELSE p.direction

SkillKeys == <<"skill1", "skill2", "skill3", "skill4">>

\* "Check for skill activation": slots 0..3 in order, from slot k on
RECURSIVE Player_useSkills(_, _, _, _, _, _, _)
Player_useSkills(k, p, m, t, hasEnemies, enemies, effect) ==
    IF k > Len(SkillKeys) THEN [player |-> p, manager |-> m, enemies |-> enemies]
    ELSE IF ~p.input[SkillKeys[k]]
         THEN Player_useSkills(k + 1, p, m, t, hasEnemies, enemies, effect)
         ELSE LET r == SkillManager_useSkill(m, k - 1, p, t, hasEnemies, enemies, effect)
              IN  Player_useSkills(k + 1, [p EXCEPT !.input[SkillKeys[k]] = FALSE],
                                   r.manager, t, hasEnemies, r.enemies, effect)

\* Player.update(deltaTime, checkCollision?, enemies?, ctx?) at Date.now() = t:
\* the player, its SkillManager and the enemies after the call
Player_update(p, dt, probe, hasEnemies, enemies, hasCtx, m, t, effect) ==
    LET same == [player |-> p, manager |-> m, enemies |-> enemies]
        moveDistance == p.speed * dt
        dy == (IF p.input.down THEN moveDistance ELSE 0)
                 - (IF p.input.up THEN moveDistance ELSE 0)
        dx == (IF p.input.right THEN moveDistance ELSE 0)
                 - (IF p.input.left THEN moveDistance ELSE 0)
        moved == Player_move([p EXCEPT !.direction = Player_facing(p)], dx, dy, probe)
    IN  IF ~p.active \/ ~Player_isAlive(p) THEN same
        ELSE IF hasCtx THEN Player_useSkills(1, moved, m, t, hasEnemies, enemies, effect)
        ELSE [same EXCEPT !.player = moved]

-----------------------------------------------------------------------------
(* Camera, EnemyManager and GameController                                 *)

TILE_SIZE == 64

\* the camera centred on the target and not kept within the map
updateCamera_Unclamped(camera, target, mapWidth, mapHeight) ==
    [camera EXCEPT !.x = target.x + target.width \div 2 - camera.width \div 2,
                   !.y = target.y + target.height \div 2 - camera.height \div 2]

\* updateCamera(camera, target, mapWidth, mapHeight); the halves are whole
\* for the sizes used
updateCamera(camera, target, mapWidth, mapHeight) ==
    LET cx == target.x + target.width \div 2 - camera.width \div 2
        cy == target.y + target.height \div 2 - camera.height \div 2
    IN  [camera EXCEPT !.x = Max(0, Min(mapWidth - camera.width, cx)),
                       !.y = Max(0, Min(mapHeight - camera.height, cy))]

\* the EnemyManager's fields after its constructor; timers in 1/60 s
EnemyManager_new ==
    [spawnPoints |-> << >>, enemyFactories |-> << >>,
     waveCount |-> 0, enemiesPerWave |-> 3, timeBetweenWaves |-> 60 * 30,
     waveTimer |-> 60 * 5, maxConcurrentEnemies |-> 15]

\* createPlayerState(), then the constructor's copies from the player
PlayerState_of(p) ==
    [x |-> p.x, y |-> p.y, width |-> p.width, height |-> p.height,
     speed |-> p.speed,
     moving |-> [up |-> FALSE, down |-> FALSE, left |-> FALSE, right |-> FALSE]]

\* new GameController(gameMap, player, camera)
GameController_new(gameMap, p, camera) ==
    [present |-> TRUE, gameMap |-> gameMap, camera |-> camera,
     playerState |-> PlayerState_of(p), enemies |-> << >>,
     manager |-> EnemyManager_new, tileSize |-> TILE_SIZE,
     isRunning |-> FALSE, isPaused |-> FALSE]

GameController_addEnemy(g, e) == [g EXCEPT !.enemies = Append(g.enemies, e)]

\* removeEnemy(enemyId): the filter enemy.id !== enemyId
GameController_removeEnemy(g, enemyId) ==
    [g EXCEPT !.enemies = SelectSeq(g.enemies, LAMBDA e : e.id # enemyId)]

EnemyManager_registerEnemyFactories(g, factories) ==
    [g EXCEPT !.manager.enemyFactories = g.manager.enemyFactories \o factories]

EnemyManager_addSpawnPoint(g, x, y) ==
    [g EXCEPT !.manager.spawnPoints =
                 Append(g.manager.spawnPoints, [x |-> x * TILE_SIZE, y |-> y * TILE_SIZE])]

EnemyManager_configureWaveSpawning(g, enemiesPerWave, timeBetweenWaves, maxConcurrentEnemies) ==
    [g EXCEPT !.manager.enemiesPerWave = enemiesPerWave,
              !.manager.timeBetweenWaves = timeBetweenWaves,
              !.manager.maxConcurrentEnemies = maxConcurrentEnemies]

\* an enemy factory, (x, y) => new BasicEnemy(x, y) or new SkeletonWarrior(x, y)
EnemyFactory(kind, x, y) ==
    IF kind = "SkeletonWarrior" THEN SkeletonWarrior_new(x, y) ELSE BasicEnemy_new(x, y)

\* the draws of one spawnEnemy: a spawn point index and a factory index
\* (<<0, 0>> when there is nothing to draw from)
SpawnDraws(g) ==
    IF Len(g.manager.spawnPoints) = 0 \/ Len(g.manager.enemyFactories) = 0
    THEN {<<0, 0>>}
    ELSE (1..Len(g.manager.spawnPoints)) \X (1..Len(g.manager.enemyFactories))

\* spawning refused only above the cap, not at it
EnemyManager_spawnEnemy_AboveCap(g, draw) ==
    LET m == g.manager
    IN  IF Len(m.spawnPoints) = 0 \/ Len(m.enemyFactories) = 0
        THEN [game |-> g, spawned |-> 0]
        ELSE IF Len(g.enemies) > m.maxConcurrentEnemies
        THEN [game |-> g, spawned |-> 0]
        ELSE LET spawnPoint == m.spawnPoints[draw[1]]
                 e == EnemyFactory(m.enemyFactories[draw[2]], spawnPoint.x, spawnPoint.y)
             IN  [game |-> GameController_addEnemy(g, e), spawned |-> 1]

\* EnemyManager.spawnEnemy() with the two Math.random() draws given: the game
\* after the call and the number of enemies returned (0 for null)
EnemyManager_spawnEnemy(g, draw) ==
    LET m == g.manager
    IN  IF Len(m.spawnPoints) = 0 \/ Len(m.enemyFactories) = 0
        THEN [game |-> g, spawned |-> 0]
        ELSE IF Len(g.enemies) >= m.maxConcurrentEnemies
        THEN [game |-> g, spawned |-> 0]
        ELSE LET spawnPoint == m.spawnPoints[draw[1]]
                 e == EnemyFactory(m.enemyFactories[draw[2]], spawnPoint.x, spawnPoint.y)
             IN  [game |-> GameController_addEnemy(g, e), spawned |-> 1]

\* the loop of spawnWave from its i-th turn on
RECURSIVE EnemyManager_spawnLoop(_, _, _, _, _)
EnemyManager_spawnLoop(g, i, count, draws, spawned) ==
    IF i > count THEN [game |-> g, spawned |-> spawned]
    ELSE LET r == EnemyManager_spawnEnemy(g, draws[i])
         IN  EnemyManager_spawnLoop(r.game, i + 1, count, draws, spawned + r.spawned)

\* a wave that adds its enemies without asking spawnEnemy
EnemyManager_spawnWave_Unchecked(g, count, draws) ==
    LET m == g.manager
        made == [i \in 1..count |->
                    EnemyFactory(m.enemyFactories[draws[i][2]],
                                 m.spawnPoints[draws[i][1]].x, m.spawnPoints[draws[i][1]].y)]
    IN  IF Len(m.spawnPoints) = 0 \/ Len(m.enemyFactories) = 0
        THEN [game |-> [g EXCEPT !.manager.waveCount = m.waveCount + 1,
                                 !.manager.waveTimer = m.timeBetweenWaves],
              spawned |-> 0]
        ELSE [game |-> [g EXCEPT !.manager.waveCount = m.waveCount + 1,
                                 !.manager.waveTimer = m.timeBetweenWaves,
                                 !.enemies = g.enemies \o made],
              spawned |-> count]

\* EnemyManager.spawnWave(count) with the draws of its spawnEnemy calls
EnemyManager_spawnWave(g, count, draws) ==
    EnemyManager_spawnLoop(
        [g EXCEPT !.manager.waveCount = g.manager.waveCount + 1,
                  !.manager.waveTimer = g.manager.timeBetweenWaves],
        1, count, draws, 0)

\* EnemyManager.update(deltaTime)
EnemyManager_update(g, dt, draws) ==
    IF g.manager.waveTimer > 0
    THEN LET ticked == [g EXCEPT !.manager.waveTimer = g.manager.waveTimer - dt]
         IN  IF ticked.manager.waveTimer <= 0
             THEN EnemyManager_spawnWave(ticked, ticked.manager.enemiesPerWave, draws).game
             ELSE ticked
    ELSE g

\* "Update all enemies": enemy.update(deltaTime, this._player, checkCollision)
\* for the enemies from the i-th on, each seeing the player the earlier left
RECURSIVE GameController_updateEnemies(_, _, _, _, _)
GameController_updateEnemies(enemies, i, dt, p, probe) ==
    IF i > Len(enemies) THEN [enemies |-> enemies, player |-> p]
    ELSE CHOOSE rest \in
             {GameController_updateEnemies([enemies EXCEPT ![i] = r.enemy],
                                           i + 1, dt, r.player, probe) :
                 r \in {Update(enemies[i], dt, TRUE, p, probe)}} : TRUE

\* the frame with the wave timer run first: before the enemies are updated
\* and the dead removed
GameController_update_WaveFirst(g, p, m, t, dt, draws) ==
    IF ~g.isRunning \/ g.isPaused THEN [game |-> g, player |-> p]
    ELSE LET checkCollision == MapProbe(g.gameMap)
             Rest(p1, spawned, r) ==
                 [game |-> [spawned EXCEPT
                               !.playerState.x = p1.x,
                               !.playerState.y = p1.y,
                               !.playerState.moving =
                                   [up |-> p1.input.up, down |-> p1.input.down,
                                    left |-> p1.input.left, right |-> p1.input.right],
                               !.enemies = SelectSeq(r.enemies, Enemy_isAlive),
                               !.camera = updateCamera(g.camera, r.player,
                                                       g.gameMap.width * g.tileSize,
                                                       g.gameMap.height * g.tileSize)],
                  player |-> r.player]
         IN  CHOOSE frame \in UNION
                 {UNION
                    {{Rest(p1, spawned, r) :
                        r \in {GameController_updateEnemies(spawned.enemies, 1, dt, p1,
                                                            checkCollision)}} :
                      spawned \in {EnemyManager_update(g, dt, draws)}} :
                    p1 \in {Player_update(p, dt, checkCollision, FALSE, << >>, FALSE,
                                          m, t, TRUE).player}} : TRUE

\* the frame short-circuited on the running flag alone
GameController_update_IgnoresPause(g, p, m, t, dt, draws) ==
    IF ~g.isRunning THEN [game |-> g, player |-> p]
    ELSE LET checkCollision == MapProbe(g.gameMap)
             \* the frame from "Sync player state" on, the player p1 and the
             \* enemies r.enemies (and the player r.player they left) given
             Rest(p1, r) ==
                 LET synced == [g EXCEPT !.playerState.x = p1.x,
                                         !.playerState.y = p1.y,
                                         !.playerState.moving =
                                             [up |-> p1.input.up, down |-> p1.input.down,
                                              left |-> p1.input.left,
                                              right |-> p1.input.right],
                                         !.enemies = SelectSeq(r.enemies, Enemy_isAlive)]
                 IN  [game |-> [EnemyManager_update(synced, dt, draws) EXCEPT !.camera =
                                   updateCamera(g.camera, r.player,
                                                g.gameMap.width * g.tileSize,
                                                g.gameMap.height * g.tileSize)],
                      player |-> r.player]
         IN  CHOOSE frame \in UNION
                 {{Rest(p1, r) :
                      r \in {GameController_updateEnemies(g.enemies, 1, dt, p1,
                                                          checkCollision)}} :
                    p1 \in {Player_update(p, dt, checkCollision, FALSE, << >>, FALSE,
                                          m, t, TRUE).player}} : TRUE

\* GameController.update(deltaTime) at Date.now() = t, with the draws of the
\* wave it may spawn: the game and the player after the frame
GameController_update(g, p, m, t, dt, draws) ==
    IF ~g.isRunning \/ g.isPaused THEN [game |-> g, player |-> p]
    ELSE LET checkCollision == MapProbe(g.gameMap)
             \* the frame from "Sync player state" on, the player p1 and the
             \* enemies r.enemies (and the player r.player they left) given
             Rest(p1, r) ==
                 LET synced == [g EXCEPT !.playerState.x = p1.x,
                                         !.playerState.y = p1.y,
                                         !.playerState.moving =
                                             [up |-> p1.input.up, down |-> p1.input.down,
                                              left |-> p1.input.left,
                                              right |-> p1.input.right],
                                         !.enemies = SelectSeq(r.enemies, Enemy_isAlive)]
                 IN  [game |-> [EnemyManager_update(synced, dt, draws) EXCEPT !.camera =
                                   updateCamera(g.camera, r.player,
                                                g.gameMap.width * g.tileSize,
                                                g.gameMap.height * g.tileSize)],
                      player |-> r.player]
         IN  CHOOSE frame \in UNION
                 {{Rest(p1, r) :
                      r \in {GameController_updateEnemies(g.enemies, 1, dt, p1,
                                                          checkCollision)}} :
                    p1 \in {Player_update(p, dt, checkCollision, FALSE, << >>, FALSE,
                                          m, t, TRUE).player}} : TRUE

-----------------------------------------------------------------------------
(* Bounds                                                                  *)

\* deltaTime ranges over 0..MaxDt whole seconds
MaxDt == 1

\* takeDamage/heal amounts range over -MaxAmount..MaxAmount halves of 100
MaxAmount == 1

\* values written through the health/maxHealth setters: -1..MaxSet halves of 100
MaxSet == 2

\* the health operations are followed only while |health| stays within this
HealthCap == 150

\* the clock runs for at most MaxTime steps of 125 ms
MaxTime == 8

\* addEnemy is followed up to MaxEnemies enemies in the collection
MaxEnemies == 3

\* waves are followed up to the MaxWaves-th
MaxWaves == 2

\* spawnWave(count) is called with count in 0..MaxCount
MaxCount == 2

Dts == {60 * k : k \in 0..MaxDt}

Amounts == {50 * k : k \in -MaxAmount..MaxAmount}

SetValues == {50 * k : k \in -1..MaxSet}

-----------------------------------------------------------------------------
(* The operations on one Enemy and one Player as actions                   *)

Record(op, arg, dt, hasPlayer, health) ==
    [op |-> op, arg |-> arg, dt |-> dt, hasPlayer |-> hasPlayer, health |-> health]

NoKill == [hist EXCEPT !.killed = FALSE, !.x = 0, !.y = 0, !.from = "NONE"]

NoHistory(route) ==
    [killed |-> FALSE, x |-> 0, y |-> 0, from |-> "NONE", route |-> route,
     sinceHit |-> -1]

WithinCap(h) == Abs(h.health) <= HealthCap /\ Abs(h.maxHealth) <= HealthCap

EnemyTakeDamage(amount) ==
    /\ enemy' = Enemy_takeDamage(enemy, amount)
    /\ WithinCap(enemy')
    /\ last' = Record("Enemy.takeDamage", amount, 0, FALSE, enemy.health)
    /\ hist' = IF enemy.state # "DEAD" /\ enemy'.health = 0
               THEN [hist EXCEPT !.killed = TRUE, !.x = enemy.x, !.y = enemy.y,
                                 !.from = enemy.state]
               ELSE IF enemy'.health > 0 THEN NoKill ELSE hist
    /\ UNCHANGED <<player, skills, now, game>>

EnemySetHealth(value) ==
    /\ enemy' = Enemy_setHealth(enemy, value)
    /\ last' = Record("Enemy.health", value, 0, FALSE, enemy.health)
    /\ hist' = IF enemy'.health > 0 THEN NoKill ELSE hist
    /\ UNCHANGED <<player, skills, now, game>>

EnemySetMaxHealth(value) ==
    /\ enemy' = Enemy_setMaxHealth(enemy, value)
    /\ last' = Record("Enemy.maxHealth", value, 0, FALSE, enemy.health)
    /\ UNCHANGED <<player, hist, skills, now, game>>

\* enemy.state = value (the state setter)
EnemySetState(value) ==
    /\ enemy.state # value
    /\ enemy' = Enemy_setState(enemy, value)
    /\ last' = Record("Enemy.state", 0, 0, FALSE, 0)
    /\ UNCHANGED <<player, hist, skills, now, game>>

EnemySetPatrolPoints(points) ==
    /\ points \in {<< >>, hist.route}
                    \cup {<<hist.route[k]>> : k \in 1..Min(1, Len(hist.route))}
    /\ enemy' = Enemy_setPatrolPoints(enemy, points)
    /\ last' = Record("Enemy.setPatrolPoints", Len(points), 0, FALSE, 0)
    /\ UNCHANGED <<player, hist, skills, now, game>>

\* hist.sinceHit is, for a SkeletonWarrior that has hit the player, the
\* deltaTime summed since its latest hit (counted up to one second)
EnemyUpdate(dt, hasPlayer, probe) ==
    LET r == Update(enemy, dt, hasPlayer, player, probe)
    IN  /\ enemy' = r.enemy
        /\ player' = r.player
        /\ last' = Record("Enemy.update", 0, dt, hasPlayer, 0)
        /\ hist' = IF enemy.kind # "SkeletonWarrior" THEN hist
                   ELSE IF r.player.health < player.health
                        THEN [hist EXCEPT !.sinceHit = 0]
                   ELSE IF hist.sinceHit < 0 THEN hist
                   ELSE [hist EXCEPT !.sinceHit = Min(60, hist.sinceHit + dt)]
        /\ UNCHANGED <<skills, now, game>>

PlayerTakeDamage(amount) ==
    /\ player' = Player_takeDamage(player, amount)
    /\ WithinCap(player')
    /\ last' = Record("Player.takeDamage", amount, 0, FALSE, player.health)
    /\ UNCHANGED <<enemy, hist, skills, now, game>>

PlayerHeal(amount) ==
    /\ player' = Player_heal(player, amount)
    /\ WithinCap(player')
    /\ last' = Record("Player.heal", amount, 0, FALSE, player.health)
    /\ UNCHANGED <<enemy, hist, skills, now, game>>

PlayerSetHealth(value) ==
    /\ player' = Player_setHealth(player, value)
    /\ last' = Record("Player.health", value, 0, FALSE, player.health)
    /\ UNCHANGED <<enemy, hist, skills, now, game>>

PlayerSetMaxHealth(value) ==
    /\ player' = Player_setMaxHealth(player, value)
    /\ last' = Record("Player.maxHealth", value, 0, FALSE, player.health)
    /\ UNCHANGED <<enemy, hist, skills, now, game>>

\* player.x = ..., player.y = ... (the GameObject setters)
PlayerMoveTo(pos) ==
    /\ <<player.x, player.y>> # pos
    /\ player' = [player EXCEPT !.x = pos[1], !.y = pos[2]]
    /\ last' = Record("Player.moveTo", 0, 0, FALSE, 0)
    /\ UNCHANGED <<enemy, hist, skills, now, game>>

\* Date.now() when the program starts: later than any cooldown, as every
\* real clock reading is (lastUsed starts at 0, the epoch)
Epoch == 1000

\* no GameController constructed
NoGame == [present |-> FALSE]

\* the variables a specification does not use
Unused == skills = SkillManager_new /\ now = Epoch /\ game = NoGame

\* time passes: Date.now() reads ms more
ClockAdvances(ms) ==
    /\ now + ms <= Epoch + 125 * MaxTime
    /\ now' = now + ms
    /\ last' = [op |-> "Date.now"]
    /\ UNCHANGED <<enemy, player, hist, skills, game>>

\* skill.use(player, ctx) on the skill object o, whose execute() reports
\* `effect` (a BasicAttack always reports success)
SkillUse(o, effect) ==
    LET r == Skill_use(skills.objects[o], player, now, FALSE, << >>, effect)
    IN  /\ skills' = [skills EXCEPT !.objects[o] = r.skill]
        /\ last' = [op |-> "Skill.use", skill |-> o, effect |-> effect,
                    result |-> r.result, prev |-> hist[o]]
        /\ hist' = IF r.result THEN [hist EXCEPT ![o] = [used |-> TRUE, at |-> now]]
                               ELSE hist
        /\ UNCHANGED <<enemy, player, now, game>>

\* skillManager.equipSkill(id, slot)
SkillManagerEquipSkill(id, slot) ==
    \E r \in {SkillManager_equipSkill(skills, id, slot)} :
        /\ skills' = r.manager
        /\ last' = [op |-> "SkillManager.equipSkill", id |-> id, slot |-> slot,
                    result |-> r.result]
        /\ UNCHANGED <<enemy, player, hist, now, game>>

\* skillManager.useSkill(slot, ctx)
SkillManagerUseSkill(slot) ==
    \E r \in {SkillManager_useSkill(skills, slot, player, now, FALSE, << >>, TRUE)} :
        /\ skills' = r.manager
        /\ last' = [op |-> "SkillManager.useSkill", id |-> "", slot |-> slot,
                    result |-> r.result]
        /\ hist' = IF r.result
                   THEN [hist EXCEPT ![skills.equipped[slot + 1]] =
                                        [used |-> TRUE, at |-> now]]
                   ELSE hist
        /\ UNCHANGED <<enemy, player, now, game>>

\* player.updateInput({key: value})
PlayerUpdateInput(key, value) ==
    /\ player.input[key] # value
    /\ player' = [player EXCEPT !.input[key] = value]
    /\ last' = [op |-> "Player.updateInput"]
    /\ UNCHANGED <<enemy, hist, skills, now, game>>

\* the rectangle of p lies on the map
OnMap(p, gameMap) ==
    /\ 0 <= p.x /\ p.x + p.width <= gameMap.width * gameMap.tileSize
    /\ 0 <= p.y /\ p.y + p.height <= gameMap.height * gameMap.tileSize

\* player.update(deltaTime, checkCollision?, enemies?, ctx?) with the one
\* enemy as the enemies; followed while the player is on the map
PlayerUpdate(dt, probe, hasEnemies, hasCtx, gameMap) ==
    LET r == Player_update(player, dt, probe, hasEnemies, <<enemy>>, hasCtx,
                           skills, now, TRUE)
    IN  /\ OnMap(r.player, gameMap)
        /\ player' = r.player
        /\ skills' = r.manager
        /\ enemy' = r.enemies[1]
        /\ last' = [op |-> "Player.update", dt |-> dt, probe |-> probe.present]
        /\ hist' = [x |-> player.x, y |-> player.y]
        /\ UNCHANGED <<now, game>>

-----------------------------------------------------------------------------
(* SpecHealth: every write to an Enemy's and a Player's health             *)

\* a base Enemy constructed with the health of Enemy or BasicEnemy and
\* given an attackDamage of 50, and a Player within its attack range
InitHealth ==
    /\ \E h \in {50, 100} :
          enemy = Enemy_setAttackDamage(
                      Enemy_new("Enemy", "enemy-1", 0, 0, 16, 16, 40, 200, h), 50)
    /\ player = Player_new("player", 24, 0, 16, 16, 2)
    /\ last = Record("new", 0, 0, FALSE, 0)
    /\ hist = NoHistory(<< >>)
    /\ Unused

NextHealth ==
    \/ \E a \in Amounts : EnemyTakeDamage(a)
    \/ \E v \in SetValues : EnemySetHealth(v)
    \/ \E v \in SetValues : EnemySetMaxHealth(v)
    \/ \E dt \in Dts : EnemyUpdate(dt, TRUE, NoProbe)
    \/ \E a \in Amounts : PlayerTakeDamage(a)
    \/ \E a \in Amounts : PlayerHeal(a)
    \/ \E v \in SetValues : PlayerSetHealth(v)
    \/ \E v \in SetValues : PlayerSetMaxHealth(v)

SpecHealth == InitHealth /\ [][NextHealth]_vars

\* C3: in every state reachable by construction, takeDamage, the health and
\* maxHealth setters and update, an Enemy is DEAD if and only if its health
\* is at most 0.  (The statement of the claim; the code does not keep it.)
C3_DeadIffNoHealth == (enemy.state = "DEAD") <=> (enemy.health <= 0)

\* C4: after a takeDamage with a non-negative amount, on an Enemy or a
\* Player, health is not below 0; after a Player heal with a non-negative
\* amount, health is not above maxHealth.
C4_HealthClamped ==
    /\ (last.op = "Enemy.takeDamage" /\ last.arg >= 0) => enemy.health >= 0
    /\ (last.op = "Player.takeDamage" /\ last.arg >= 0) => player.health >= 0
    /\ (last.op = "Player.heal" /\ last.arg >= 0) => player.health <= player.maxHealth

\* C4 witness: an enemy already driven to 0 and DEAD, and a heal that would
\* have taken the player past maxHealth and left it at maxHealth
C4_Witness ==
    /\ last.op = "Player.heal"
    /\ last.arg > 0
    /\ last.health + last.arg > player.maxHealth
    /\ player.health = player.maxHealth
    /\ enemy.health = 0
    /\ enemy.state = "DEAD"

\* C5: after any sequence of takeDamage, heal, health := v and maxHealth := v
\* with arbitrary integer arguments, 0 <= health <= maxHealth, for the Player
\* and for the Enemy.  (The statement of the claim; the code does not keep it.)
C5_AlwaysClamped ==
    /\ 0 <= player.health /\ player.health <= player.maxHealth
    /\ 0 <= enemy.health /\ enemy.health <= enemy.maxHealth

-----------------------------------------------------------------------------
(* SpecEnemy: one Enemy's state machine against one Player                 *)

\* a 12 x 12 map of 64-pixel tiles: the border ring and one interior tree
EnemyMap ==
    [width |-> 12, height |-> 12, tileSize |-> 64,
     trees |-> BorderTrees(12, 12) \cup {<<9, 9>>}]

\* where the Player stands, and may be moved to: beside the enemies' starts,
\* and out of every detection range
PlayerSpots == {<<320, 256>>, <<560, 256>>}

\* the enemies the specification starts from: the class, the position (150
\* pixels from the player, along the x axis or along a 3-4-5 ray),
\* isAggressive and the waypoint list setPatrolPoints may give it (on the
\* line through the start and the player, so that every step the source
\* computes with Math.sqrt is a whole number of pixels)
EnemyConfigs ==
    LET axis == <<[x |-> 170, y |-> 256], [x |-> 110, y |-> 256]>>
        ray  == <<[x |-> 230, y |-> 376], [x |-> 194, y |-> 424]>>
    IN  {[kind |-> "Enemy", x |-> 170, y |-> 256, isAggressive |-> TRUE, route |-> axis],
         [kind |-> "Enemy", x |-> 170, y |-> 256, isAggressive |-> FALSE, route |-> axis],
         [kind |-> "Enemy", x |-> 230, y |-> 376, isAggressive |-> TRUE, route |-> ray],
         [kind |-> "SkeletonWarrior", x |-> 170, y |-> 256, isAggressive |-> TRUE, route |-> << >>]}

\* an enemy of a configuration: a SkeletonWarrior, or a base Enemy of speed
\* 30 px/s (45 px/s when chasing); its attackDamage set to 50
EnemyOf(c) ==
    LET made == IF c.kind = "SkeletonWarrior"
                THEN SkeletonWarrior_new(c.x, c.y)
                ELSE Enemy_new("Enemy", "enemy-1", c.x, c.y, 16, 16, 120, 160, 50)
    IN  [Enemy_setAttackDamage(made, 50) EXCEPT !.isAggressive = c.isAggressive]

InitEnemy ==
    /\ \E c \in EnemyConfigs :
          /\ enemy = EnemyOf(c)
          /\ hist = NoHistory(c.route)
    /\ player = Player_new("player", 320, 256, 16, 16, 2)
    /\ last = Record("new", 0, 0, FALSE, 0)
    /\ Unused

NextEnemy ==
    \/ \E dt \in Dts, hasPlayer \in BOOLEAN,
          probe \in {NoProbe, MapProbe(EnemyMap)} : EnemyUpdate(dt, hasPlayer, probe)
    \/ \E a \in {a \in Amounts : a >= 0} : EnemyTakeDamage(a)
    \/ \E points \in {<< >>, hist.route}
                          \cup {<<hist.route[k]>> : k \in 1..Min(1, Len(hist.route))} :
          EnemySetPatrolPoints(points)
    \/ EnemySetState("STUNNED")
    \/ \E pos \in PlayerSpots : PlayerMoveTo(pos)

SpecEnemy == InitEnemy /\ [][NextEnemy]_vars

\* C1: a takeDamage that brings an Enemy's health to exactly 0 leaves it
\* DEAD and not alive, whatever state it was in; and after every later
\* update (any deltaTime, with or without a player or a probe) the enemy is
\* still where it was killed.
C1_DeathStopsEnemy ==
    /\ (last.op = "Enemy.takeDamage" /\ enemy.health = 0)
          => (enemy.state = "DEAD" /\ ~Enemy_isAlive(enemy))
    /\ hist.killed => (enemy.x = hist.x /\ enemy.y = hist.y)

\* C1 witness: an enemy killed while CHASING, given waypoints afterwards (so
\* that its state reads PATROLLING), then updated over a whole second with
\* the player in detection range, and still where it was killed
C1_Witness ==
    /\ hist.killed
    /\ hist.from = "CHASING"
    /\ enemy.state = "PATROLLING"
    /\ last.op = "Enemy.update"
    /\ last.dt > 0
    /\ last.hasPlayer
    /\ Player_isAlive(player)
    /\ DistanceSquared(enemy, player) <= enemy.detectionRange * enemy.detectionRange
    /\ enemy.x = hist.x
    /\ enemy.y = hist.y

\* C2: after the first update that follows the kill of an Enemy (health
\* brought to 0 by takeDamage), active = false.  (The statement of the claim;
\* the code does not keep it.)
C2_InactiveAfterKill ==
    (hist.killed /\ last.op = "Enemy.update") => ~enemy.active

\* the enemy's update will run its state machine: active and alive
C6_Runs == enemy.active /\ Enemy_isAlive(enemy)

\* the chase step of an update of dt, in pixels
C6_Step(dt) == (enemy.baseSpeed * enemy.chaseSpeed * dt) \div 480

-----------------------------------------------------------------------------
(* SpecSkill: the cooldown of a Skill against the clock                    *)

\* two skill objects: a skill of cooldown 250 or 500 ms whose effect may
\* fail, and a BasicAttack (500 ms); neither used yet
InitSkill ==
    /\ \E c \in {250, 500} :
          skills = [SkillManager_new EXCEPT
                       !.objects = [o \in {"custom", "basicAttack"} |->
                                       IF o = "custom" THEN Skill_new("Custom", c, 0, 0, 0)
                                                       ELSE BasicAttack_new]]
    /\ now = Epoch
    /\ hist = [o \in {"custom", "basicAttack"} |-> [used |-> FALSE, at |-> 0]]
    /\ last = [op |-> "new"]
    /\ enemy = Enemy_new("Enemy", "enemy-1", 100, 68, 16, 16, 40, 200, 10)
    /\ player = Player_new("player", 68, 68, 16, 16, 1)
    /\ game = NoGame

NextSkill ==
    \/ \E k \in 1..2 : ClockAdvances(125 * k)
    \/ \E o \in DOMAIN skills.objects, effect \in BOOLEAN : SkillUse(o, effect)
    \/ \E id \in {"basicAttack", "custom"}, slot \in -1..MaxEquippedSkills :
          SkillManagerEquipSkill(id, slot)
    \/ \E slot \in -1..MaxEquippedSkills : SkillManagerUseSkill(slot)

SpecSkill == InitSkill /\ [][NextSkill]_vars

\* C8: for a skill of cooldown C > 0 whose effect reports success, a use()
\* returns true exactly when the skill has had no successful use yet or its
\* latest successful use is at least C ms back; so a use within C ms of a
\* successful one returns false, one C ms or more after it returns true, and
\* the first use of a fresh skill succeeds.
C8_CooldownGates ==
    (last.op = "Skill.use" /\ skills.objects[last.skill].cooldown > 0
        /\ (last.effect \/ skills.objects[last.skill].kind = "BasicAttack"))
      => (last.result <=>
             (~last.prev.used \/ now - last.prev.at >= skills.objects[last.skill].cooldown))

\* C8 witness: a use that succeeds exactly C ms after the previous successful
\* use of the same skill
C8_Witness ==
    /\ last.op = "Skill.use"
    /\ last.effect
    /\ last.result
    /\ last.prev.used
    /\ skills.objects[last.skill].cooldown > 0
    /\ now - last.prev.at = skills.objects[last.skill].cooldown

\* C15: an equipSkill with a slot outside 0..3 or an id that is not
\* registered returns false and leaves the slots, the skill map and the
\* skills as they were; a useSkill on a slot outside the array or holding no
\* skill returns false and leaves every lastUsed as it was; and the array of
\* slots never grows beyond 4.
C15_SlotsGuarded ==
    [][/\ (/\ last'.op = "SkillManager.equipSkill"
           /\ (last'.slot \notin 0..3 \/ last'.id \notin DOMAIN skills.ids))
             => (~last'.result /\ skills' = skills)
       /\ (/\ last'.op = "SkillManager.useSkill"
           /\ (\/ last'.slot \notin 0..(Len(skills.equipped) - 1)
               \/ skills.equipped[last'.slot + 1] = "null"))
             => /\ ~last'.result
                /\ \A o \in DOMAIN skills.objects :
                      skills'.objects[o].lastUsed = skills.objects[o].lastUsed
       /\ Len(skills'.equipped) <= 4]_vars

\* C15 witness: all four slots in use, one of them empty, and an equipSkill
\* into a fifth slot refused
C15_Witness ==
    /\ last.op = "SkillManager.equipSkill"
    /\ last.slot = 4
    /\ last.id = "basicAttack"
    /\ ~last.result
    /\ Len(skills.equipped) = 4
    /\ \E i \in 1..4 : skills.equipped[i] = "null"

-----------------------------------------------------------------------------
(* SpecPlayer: Player.update against a map, with its skills                *)

\* a 6 x 6 map of 64-pixel tiles: the border ring and a tree at (3, 3)
PlayerMap ==
    [width |-> 6, height |-> 6, tileSize |-> 64,
     trees |-> BorderTrees(6, 6) \cup {<<3, 3>>}]

\* the keys this specification presses
PlayerKeys == {"up", "down", "left", "right", "skill1"}

\* a 16 x 16 Player of speed 1 px/frame in the top-left free tile, and an
\* Enemy of health 10 to its right, within a BasicAttack's reach
InitPlayer ==
    /\ player = Player_new("player", 68, 68, 16, 16, 1)
    /\ enemy = Enemy_new("Enemy", "enemy-1", 100, 68, 16, 16, 40, 200, 10)
    /\ skills = SkillManager_new
    /\ now = Epoch
    /\ last = [op |-> "new"]
    /\ hist = [x |-> 68, y |-> 68]
    /\ game = NoGame

NextPlayer ==
    \/ \E key \in PlayerKeys, value \in BOOLEAN : PlayerUpdateInput(key, value)
    \/ \E dt \in Dts, hasCtx \in BOOLEAN, hasEnemies \in BOOLEAN :
            PlayerUpdate(dt, MapProbe(PlayerMap), hasEnemies /\ hasCtx, hasCtx, PlayerMap)
    \/ PlayerTakeDamage(100)
    \/ ClockAdvances(500)

SpecPlayer == InitPlayer /\ [][NextPlayer]_vars

\* the step of the update just made, along each axis
C7_Dx == (IF player.input.right THEN player.speed * last.dt ELSE 0)
            - (IF player.input.left THEN player.speed * last.dt ELSE 0)

C7_Dy == (IF player.input.down THEN player.speed * last.dt ELSE 0)
            - (IF player.input.up THEN player.speed * last.dt ELSE 0)

\* C7: an update (of an active, living player) given a collision probe
\* resolves the axes one after the other: X changes by dx iff the probe is
\* false at (x + dx, y); then Y changes by dy iff the probe is false at
\* (x', y + dy), x' being the X just decided.
C7_AxisSeparated ==
    (last.op = "Player.update" /\ last.probe /\ player.active /\ Player_isAlive(player)
        /\ (C7_Dx # 0 \/ C7_Dy # 0))
      => /\ player.x = IF ~checkCollisionWithMap(hist.x + C7_Dx, hist.y,
                                                 player.width, player.height, PlayerMap)
                       THEN hist.x + C7_Dx ELSE hist.x
         /\ player.y = IF ~checkCollisionWithMap(player.x, hist.y + C7_Dy,
                                                 player.width, player.height, PlayerMap)
                       THEN hist.y + C7_Dy ELSE hist.y

\* C7 witness: right and down pressed beside the tree; the X step was blocked
\* and the Y step was free, so Y changed and X did not
C7_Witness ==
    /\ last.op = "Player.update"
    /\ last.probe
    /\ last.dt > 0
    /\ Player_isAlive(player)
    /\ player.input.right /\ player.input.down
    /\ ~player.input.left /\ ~player.input.up
    /\ player.x = hist.x
    /\ player.y = hist.y + player.speed * last.dt

-----------------------------------------------------------------------------
(* SpecGame: the GameController's frame and the EnemyManager's spawning    *)

\* the tiles spawn points are added at, in this order
SpawnTiles == <<[x |-> 2, y |-> 2], [x |-> 3, y |-> 2]>>

\* the draws of the spawnEnemy calls of one wave of count enemies
WaveDraws(g, count) == [1..count -> SpawnDraws(g)]

\* the frame of dt will spawn a wave (so that its draws matter)
WaveDue(g, dt) ==
    /\ g.isRunning /\ ~g.isPaused
    /\ g.manager.waveTimer > 0
    /\ g.manager.waveTimer - dt <= 0

\* The calls of start, pause, resume and stop are remembered in hist:
\* started, the last start was not followed by a stop; paused, the last of
\* start, pause and resume was a pause.
NoCalls == [started |-> FALSE, paused |-> FALSE]

GameStart ==
    /\ game' = [game EXCEPT !.isRunning = TRUE, !.isPaused = FALSE]
    /\ game' # game
    /\ last' = [op |-> "GameController.start"]
    /\ hist' = [started |-> TRUE, paused |-> FALSE]
    /\ UNCHANGED <<enemy, player, skills, now>>

GamePause ==
    /\ game' = [game EXCEPT !.isPaused = TRUE]
    /\ game' # game
    /\ last' = [op |-> "GameController.pause"]
    /\ hist' = [hist EXCEPT !.paused = TRUE]
    /\ UNCHANGED <<enemy, player, skills, now>>

GameResume ==
    /\ game' = [game EXCEPT !.isPaused = FALSE]
    /\ game' # game
    /\ last' = [op |-> "GameController.resume"]
    /\ hist' = [hist EXCEPT !.paused = FALSE]
    /\ UNCHANGED <<enemy, player, skills, now>>

GameStop ==
    /\ game' = [game EXCEPT !.isRunning = FALSE]
    /\ game' # game
    /\ last' = [op |-> "GameController.stop"]
    /\ hist' = [hist EXCEPT !.started = FALSE]
    /\ UNCHANGED <<enemy, player, skills, now>>

\* gameController.addEnemy(new BasicEnemy(x, y)), which asks no cap
GameAddEnemy(x, y) ==
    /\ Len(game.enemies) < MaxEnemies
    /\ game' = GameController_addEnemy(game, BasicEnemy_new(x, y))
    /\ last' = [op |-> "GameController.addEnemy"]
    /\ UNCHANGED <<enemy, player, hist, skills, now>>

\* gameController.enemies[i - 1].takeDamage(amount)
GameEnemyTakeDamage(i, amount) ==
    /\ i <= Len(game.enemies)
    /\ game' = [game EXCEPT !.enemies[i] = Enemy_takeDamage(game.enemies[i], amount)]
    /\ game' # game
    /\ last' = [op |-> "Enemy.takeDamage"]
    /\ UNCHANGED <<enemy, player, hist, skills, now>>

\* gameController.enemies[i - 1].active = false (the GameObject setter),
\* followed for a living enemy of a full collection
GameEnemyDeactivate(i) ==
    /\ Len(game.enemies) = MaxEnemies
    /\ game.enemies[i].active
    /\ Enemy_isAlive(game.enemies[i])
    /\ game' = [game EXCEPT !.enemies[i].active = FALSE]
    /\ last' = [op |-> "Enemy.active"]
    /\ UNCHANGED <<enemy, player, hist, skills, now>>

\* enemyManager.addSpawnPoint(x, y) for the next of SpawnTiles
ManagerAddSpawnPoint ==
    /\ Len(game.manager.spawnPoints) < Len(SpawnTiles)
    /\ LET tile == SpawnTiles[Len(game.manager.spawnPoints) + 1]
       IN  game' = EnemyManager_addSpawnPoint(game, tile.x, tile.y)
    /\ last' = [op |-> "EnemyManager.addSpawnPoint"]
    /\ UNCHANGED <<enemy, player, hist, skills, now>>

\* enemyManager.registerEnemyFactories(factories), once
ManagerRegisterEnemyFactories(factories) ==
    /\ Len(game.manager.enemyFactories) = 0
    /\ game' = EnemyManager_registerEnemyFactories(game, factories)
    /\ last' = [op |-> "EnemyManager.registerEnemyFactories"]
    /\ UNCHANGED <<enemy, player, hist, skills, now>>

\* enemyManager.spawnEnemy()
ManagerSpawnEnemy ==
    \E draw \in SpawnDraws(game) :
        LET r == EnemyManager_spawnEnemy(game, draw)
        IN  /\ game' = r.game
            /\ last' = [op |-> "EnemyManager.spawnEnemy", count |-> 1,
                        spawned |-> r.spawned]
            /\ UNCHANGED <<enemy, player, hist, skills, now>>

\* enemyManager.spawnWave(count)
ManagerSpawnWave(count) ==
    /\ game.manager.waveCount < MaxWaves
    /\ \E draws \in WaveDraws(game, count) :
          LET r == EnemyManager_spawnWave(game, count, draws)
          IN  /\ game' = r.game
              /\ last' = [op |-> "EnemyManager.spawnWave", count |-> count,
                          spawned |-> r.spawned]
    /\ UNCHANGED <<enemy, player, hist, skills, now>>

\* gameController.update(deltaTime): one frame, followed while the player
\* is on the map
GameUpdate(dt) ==
    /\ OnMap(player, game.gameMap)
    /\ \E draws \in WaveDraws(game, IF WaveDue(game, dt) THEN game.manager.enemiesPerWave
                                                      ELSE 0) :
          \E r \in {GameController_update(game, player, skills, now, dt, draws)} :
            /\ r.game.manager.waveCount <= MaxWaves
            /\ game' = r.game
            /\ player' = r.player
            /\ last' = [op |-> "GameController.update", count |-> dt, spawned |-> 0]
            /\ UNCHANGED <<enemy, hist, skills, now>>

\* a GameController over the 12 x 12 map with a Player far from every spawn
\* point, its EnemyManager configured for waves of 2 every second and at
\* most 2 enemies at once
InitGame ==
    /\ player = Player_new("player", 400, 560, 16, 16, 2)
    /\ game = EnemyManager_configureWaveSpawning(
                  GameController_new(EnemyMap, player,
                                     [x |-> 0, y |-> 0, width |-> 320, height |-> 256]),
                  2, 60, 2)
    /\ enemy = Enemy_new("Enemy", "enemy-1", 100, 68, 16, 16, 40, 200, 10)
    /\ skills = SkillManager_new
    /\ now = Epoch
    /\ last = [op |-> "new"]
    /\ hist = NoCalls

NextGame ==
    \/ GameStart
    \/ GamePause
    \/ GameResume
    \/ GameStop
    \/ GameAddEnemy(SpawnTiles[1].x * TILE_SIZE, SpawnTiles[1].y * TILE_SIZE)
    \/ GameEnemyTakeDamage(1, 100)
    \/ GameEnemyDeactivate(1)
    \/ ManagerAddSpawnPoint
    \/ ManagerRegisterEnemyFactories(<<"BasicEnemy", "SkeletonWarrior">>)
    \/ ManagerSpawnEnemy
    \/ \E count \in 0..MaxCount : ManagerSpawnWave(count)
    \/ \E dt \in Dts : GameUpdate(dt)

SpecGame == InitGame /\ [][NextGame]_vars

\* spawnEnemy is refused in this state: no spawn point, no factory, or the
\* collection at or above the cap
C9_Refused ==
    \/ Len(game.manager.spawnPoints) = 0
    \/ Len(game.manager.enemyFactories) = 0
    \/ Len(game.enemies) >= game.manager.maxConcurrentEnemies

\* C9: a refused spawnEnemy returns none and leaves the collection, waveCount
\* and waveTimer as they were; any other spawnEnemy returns one enemy and
\* appends exactly that enemy, which stands on a registered spawn point.
C9_SpawnEnemy ==
    [][last'.op = "EnemyManager.spawnEnemy" =>
        IF C9_Refused
        THEN /\ last'.spawned = 0
             /\ game'.enemies = game.enemies
             /\ game'.manager.waveCount = game.manager.waveCount
             /\ game'.manager.waveTimer = game.manager.waveTimer
        ELSE /\ last'.spawned = 1
             /\ Len(game'.enemies) = Len(game.enemies) + 1
             /\ SubSeq(game'.enemies, 1, Len(game.enemies)) = game.enemies
             /\ \E i \in 1..Len(game.manager.spawnPoints) :
                   /\ game'.enemies[Len(game'.enemies)].x = game.manager.spawnPoints[i].x
                   /\ game'.enemies[Len(game'.enemies)].y = game.manager.spawnPoints[i].y]_vars

\* C9 witness: spawn points and factories registered, more enemies in the
\* collection than the cap allows, and a spawnEnemy that returned none
C9_Witness ==
    /\ last.op = "EnemyManager.spawnEnemy"
    /\ last.spawned = 0
    /\ Len(game.manager.spawnPoints) > 0
    /\ Len(game.manager.enemyFactories) > 0
    /\ Len(game.enemies) > game.manager.maxConcurrentEnemies

\* C10: a frame, a spawnEnemy or a spawnWave made with the collection within
\* the cap leaves the cap as it was and the collection within it; and a
\* spawnWave(count), spawn points and factories given, adds exactly
\* min(count, cap - current count) enemies.
C10_CapKept ==
    [][(/\ last'.op \in {"GameController.update", "EnemyManager.spawnEnemy",
                         "EnemyManager.spawnWave"}
        /\ Len(game.enemies) <= game.manager.maxConcurrentEnemies)
          => /\ game'.manager.maxConcurrentEnemies = game.manager.maxConcurrentEnemies
             /\ Len(game'.enemies) <= game.manager.maxConcurrentEnemies
             /\ (/\ last'.op = "EnemyManager.spawnWave"
                 /\ Len(game.manager.spawnPoints) > 0
                 /\ Len(game.manager.enemyFactories) > 0)
                   => /\ Len(game'.enemies) - Len(game.enemies) =
                            Min(last'.count,
                                game.manager.maxConcurrentEnemies - Len(game.enemies))
                      /\ last'.spawned = Len(game'.enemies) - Len(game.enemies)]_vars

\* C10 witness: a spawnWave asked for more enemies than the cap left room
\* for, added some, and filled the collection to the cap
C10_Witness ==
    /\ last.op = "EnemyManager.spawnWave"
    /\ last.spawned > 0
    /\ last.count > last.spawned
    /\ Len(game.enemies) = game.manager.maxConcurrentEnemies

-----------------------------------------------------------------------------
(* SpecWave: the EnemyManager's wave timer                                 *)

\* enemyManager.configureWaveSpawning(enemiesPerWave, timeBetweenWaves, cap)
ManagerConfigureWaveSpawning(enemiesPerWave, timeBetweenWaves, maxConcurrentEnemies) ==
    /\ game' = EnemyManager_configureWaveSpawning(game, enemiesPerWave, timeBetweenWaves,
                                                  maxConcurrentEnemies)
    /\ game' # game
    /\ last' = [op |-> "EnemyManager.configureWaveSpawning", dt |-> 0]
    /\ UNCHANGED <<enemy, player, hist, skills, now>>

\* enemyManager.update(deltaTime)
ManagerUpdate(dt) ==
    \E draws \in WaveDraws(game, game.manager.enemiesPerWave) :
        \E g \in {EnemyManager_update(game, dt, draws)} :
            /\ g.manager.waveCount <= MaxWaves
            /\ game' = g
            /\ last' = [op |-> "EnemyManager.update", dt |-> dt]
            /\ UNCHANGED <<enemy, player, hist, skills, now>>

\* a GameController as constructed (first wave after 5 s), its EnemyManager
\* then configured, given spawn points and factories, and ticked
InitWave ==
    /\ player = Player_new("player", 400, 560, 16, 16, 2)
    /\ game = GameController_new(EnemyMap, player,
                                 [x |-> 0, y |-> 0, width |-> 320, height |-> 256])
    /\ enemy = Enemy_new("Enemy", "enemy-1", 100, 68, 16, 16, 40, 200, 10)
    /\ skills = SkillManager_new
    /\ now = Epoch
    /\ last = [op |-> "new", dt |-> 0]
    /\ hist = NoHistory(<< >>)

NextWave ==
    \/ \E enemiesPerWave \in 1..MaxCount, timeBetweenWaves \in {0, 60} :
          ManagerConfigureWaveSpawning(enemiesPerWave, timeBetweenWaves, 2)
    \/ ManagerAddSpawnPoint
    \/ ManagerRegisterEnemyFactories(<<"BasicEnemy">>)
    \/ \E dt \in Dts : ManagerUpdate(dt)

SpecWave == InitWave /\ [][NextWave]_vars

\* C11: every EnemyManager.update(dt) with timeBetweenWaves >= 0 counts the
\* timer down by dt; when the timer is then at or below 0 it runs spawnWave
\* once (waveCount + 1, waveTimer back to timeBetweenWaves); otherwise
\* waveCount and the collection stay as they were.
C11_WaveTimer ==
    [][(last'.op = "EnemyManager.update" /\ game.manager.timeBetweenWaves >= 0) =>
        IF game.manager.waveTimer - last'.dt <= 0
        THEN /\ game'.manager.waveCount = game.manager.waveCount + 1
             /\ game'.manager.waveTimer = game.manager.timeBetweenWaves
        ELSE /\ game'.manager.waveTimer = game.manager.waveTimer - last'.dt
             /\ game'.manager.waveCount = game.manager.waveCount
             /\ game'.enemies = game.enemies]_vars

-----------------------------------------------------------------------------
(* SpecSpawnPoints: EnemyManager.generateSpawnPointsAroundEdges            *)

\* the draws of one candidate: the edge, Math.floor(Math.random() * 4), then
\* the coordinate along it, Math.floor(Math.random() * n) for n = width - 4
\* or height - 4
EdgeDraws(gameMap) ==
    LET RandomBelow(n) == IF n > 0 THEN 0..(n - 1) ELSE n..0
    IN  ({0, 2} \X RandomBelow(gameMap.width - 4))
            \cup ({1, 3} \X RandomBelow(gameMap.height - 4))

\* "Which edge?": the candidate tile of a draw
EdgeCandidate(gameMap, draw) ==
    CASE draw[1] = 0 -> [x |-> draw[2] + 2, y |-> 2]
      [] draw[1] = 1 -> [x |-> gameMap.width - 3, y |-> draw[2] + 2]
      [] draw[1] = 2 -> [x |-> draw[2] + 2, y |-> gameMap.height - 3]
      [] draw[1] = 3 -> [x |-> 2, y |-> draw[2] + 2]
      [] OTHER -> [x |-> 2, y |-> 2]

\* "Check if position is valid (not blocked by map)"
EdgeCandidateFree(gameMap, tile) ==
    ~checkCollisionWithMap(tile.x * TILE_SIZE, tile.y * TILE_SIZE, 48, 48, gameMap)

\* the loop pushing onto the spawn points it was given
EnemyManager_generateSpawnPointsAroundEdges_NoClear(g, count, draws) ==
    LET tiles == [i \in 1..count |-> EdgeCandidate(g.gameMap, draws[i])]
        Free(tile) == EdgeCandidateFree(g.gameMap, tile)
        kept == SelectSeq(tiles, Free)
    IN  [g EXCEPT !.manager.spawnPoints =
            g.manager.spawnPoints \o
            [i \in 1..Len(kept) |-> [x |-> kept[i].x * TILE_SIZE, y |-> kept[i].y * TILE_SIZE]]]

\* EnemyManager.generateSpawnPointsAroundEdges(count) with the draws of its
\* count candidates
EnemyManager_generateSpawnPointsAroundEdges(g, count, draws) ==
    LET tiles == [i \in 1..count |-> EdgeCandidate(g.gameMap, draws[i])]
        Free(tile) == EdgeCandidateFree(g.gameMap, tile)
        kept == SelectSeq(tiles, Free)
    IN  [g EXCEPT !.manager.spawnPoints =
            [i \in 1..Len(kept) |-> [x |-> kept[i].x * TILE_SIZE, y |-> kept[i].y * TILE_SIZE]]]

\* the map layouts: a 6 x 6 map, whose candidates are the tiles (2..3, 2..3),
\* with none, one, two or all of them a tree; a 4 x 2 map, whose candidates
\* are border trees or lie outside it; a 6 x 6 map of 32-pixel tiles, where a candidate covers
\* the tiles 4..5 or lies outside, with a tree at (4, 4)
EdgeMaps ==
    {[width |-> 6, height |-> 6, tileSize |-> TILE_SIZE, trees |-> BorderTrees(6, 6) \cup T] :
        T \in {{}, {<<2, 2>>}, {<<2, 2>>, <<3, 3>>}, {<<2, 2>>, <<3, 2>>, <<2, 3>>, <<3, 3>>}}}
    \cup {[width |-> 4, height |-> 2, tileSize |-> TILE_SIZE, trees |-> BorderTrees(4, 2)]}
    \cup {[width |-> 6, height |-> 6, tileSize |-> 32,
           trees |-> BorderTrees(6, 6) \cup {<<4, 4>>}]}

\* enemyManager.generateSpawnPointsAroundEdges(count)
ManagerGenerateSpawnPoints(count) ==
    \E draws \in [1..count -> EdgeDraws(game.gameMap)] :
        /\ game' = EnemyManager_generateSpawnPointsAroundEdges(game, count, draws)
        /\ last' = [op |-> "EnemyManager.generateSpawnPointsAroundEdges",
                    count |-> count, before |-> Len(game.manager.spawnPoints),
                    free |-> Cardinality({i \in 1..count :
                                EdgeCandidateFree(game.gameMap,
                                                  EdgeCandidate(game.gameMap, draws[i]))})]
        /\ UNCHANGED <<enemy, player, hist, skills, now>>

InitSpawnPoints ==
    /\ player = Player_new("player", 80, 80, 16, 16, 2)
    /\ \E gameMap \in EdgeMaps :
          game = GameController_new(gameMap, player,
                                    [x |-> 0, y |-> 0, width |-> 320, height |-> 256])
    /\ enemy = Enemy_new("Enemy", "enemy-1", 100, 68, 16, 16, 40, 200, 10)
    /\ skills = SkillManager_new
    /\ now = Epoch
    /\ last = [op |-> "new", count |-> 0, before |-> 0, free |-> 0]
    /\ hist = NoHistory(<< >>)

NextSpawnPoints ==
    \/ ManagerAddSpawnPoint
    \/ \E count \in 0..MaxCount : ManagerGenerateSpawnPoints(count)

SpecSpawnPoints == InitSpawnPoints /\ [][NextSpawnPoints]_vars

\* the candidate tiles of the map: row 2 and row height-3 across the columns
\* drawn, column 2 and column width-3 across the rows drawn
C12_Candidates(gameMap) ==
    LET Along(n) == IF n > 4 THEN 2..(n - 3) ELSE (n - 2)..2
    IN  {[x |-> x, y |-> y] : x \in Along(gameMap.width), y \in {2, gameMap.height - 3}}
        \cup {[x |-> x, y |-> y] : y \in Along(gameMap.height), x \in {2, gameMap.width - 3}}

\* C12: after generateSpawnPointsAroundEdges(N) there are at most N spawn
\* points, whatever points there were before; each is a candidate edge tile
\* whose 48 x 48 rectangle the map does not block; and there is one point per
\* drawn candidate that the map does not block (none retried, none kept).
C12_SpawnPointsPruned ==
    [][last'.op = "EnemyManager.generateSpawnPointsAroundEdges" =>
        LET points == game'.manager.spawnPoints
        IN  /\ Len(points) <= last'.count
            /\ Len(points) = last'.free
            /\ \A i \in 1..Len(points) :
                  /\ ~checkCollisionWithMap(points[i].x, points[i].y, 48, 48, game.gameMap)
                  /\ \E tile \in C12_Candidates(game.gameMap) :
                        /\ points[i].x = tile.x * TILE_SIZE
                        /\ points[i].y = tile.y * TILE_SIZE]_vars

\* C12 witness: two candidates asked for over earlier spawn points, one of
\* them blocked and dropped, the earlier points gone
C12_Witness ==
    /\ last.op = "EnemyManager.generateSpawnPointsAroundEdges"
    /\ last.count = 2
    /\ last.before > 0
    /\ Len(game.manager.spawnPoints) = 1

-----------------------------------------------------------------------------
(* SpecProbe: checkCollisionWithMap as a function of the rectangle         *)

\* a map of EdgeMaps and a rectangle whose edges lie on, next to and away
\* from tile boundaries, inside and outside the map
InitProbe ==
    LET edges == {-65, -64, -49, -48, -17, -16, -1, 0, 15, 16, 63, 64, 127, 128,
                  143, 144, 191, 192, 255, 256, 335, 336, 383, 384, 400}
    IN  /\ player = Player_new("player", 80, 80, 16, 16, 2)
        /\ \E gameMap \in EdgeMaps :
              game = GameController_new(gameMap, player,
                                        [x |-> 0, y |-> 0, width |-> 320, height |-> 256])
        /\ \E x \in edges, y \in edges, size \in {0, 16, 48} :
              last = [op |-> "new", x |-> x, y |-> y, width |-> size, height |-> size,
                      result |-> FALSE]
        /\ enemy = Enemy_new("Enemy", "enemy-1", 100, 68, 16, 16, 40, 200, 10)
        /\ skills = SkillManager_new
        /\ now = Epoch
        /\ hist = NoHistory(<< >>)

\* checkCollisionWithMap(x, y, width, height, gameMap) on the rectangle drawn
CheckCollision ==
    /\ last.op = "new"
    /\ last' = [last EXCEPT !.op = "checkCollisionWithMap",
                            !.result = checkCollisionWithMap(last.x, last.y, last.width,
                                                             last.height, game.gameMap)]
    /\ UNCHANGED <<enemy, player, hist, skills, now, game>>

SpecProbe == InitProbe /\ [][CheckCollision]_vars

\* the tiles of the map that the rectangle of the last probe reaches: the
\* tile's pixels start at or before the rectangle's far edge and end after
\* its near edge
C13_Covered ==
    {t \in (0..(game.gameMap.width - 1)) \X (0..(game.gameMap.height - 1)) :
        /\ t[1] * game.gameMap.tileSize <= last.x + last.width
        /\ last.x < (t[1] + 1) * game.gameMap.tileSize
        /\ t[2] * game.gameMap.tileSize <= last.y + last.height
        /\ last.y < (t[2] + 1) * game.gameMap.tileSize}

\* C13: checkCollisionWithMap returns true exactly when one of the tiles of
\* the map within the rectangle's inclusive tile ranges is a TREE; a
\* rectangle no pixel of which (far edges included) is on the map is not
\* blocked.
C13_ProbeIsTreeUnderRectangle ==
    last.op = "checkCollisionWithMap" =>
        /\ last.result <=> (\E t \in C13_Covered : t \in game.gameMap.trees)
        /\ (\/ last.x + last.width < 0
            \/ last.y + last.height < 0
            \/ last.x >= game.gameMap.width * game.gameMap.tileSize
            \/ last.y >= game.gameMap.height * game.gameMap.tileSize) => ~last.result

\* C13 witness: a rectangle that starts left of the map and ends exactly
\* where a tile begins is blocked by a tree in that tile
C13_Witness ==
    /\ last.op = "checkCollisionWithMap"
    /\ last.result
    /\ last.x < 0
    /\ (last.x + last.width) % game.gameMap.tileSize = 0
    /\ last.y > 0

-----------------------------------------------------------------------------
(* SpecFrame: GameController.update over a moving Player                   *)

\* A GameController over the 6 x 6 map with its tree at (3, 3); a camera
\* smaller or larger than the map; waves of one BasicEnemy every second at
\* the tile (1, 1), at most 2 enemies at once, the first wave one second
\* away (enemyManager.update(4) before the game starts); a BasicEnemy left
\* of the tree, with the Player right of it and within its sight.
InitFrame ==
    /\ player = Player_new("player", 260, 200, 16, 16, 2)
    /\ \E size \in {128, 512} :
          game = EnemyManager_update(
                    GameController_addEnemy(
                        EnemyManager_addSpawnPoint(
                            EnemyManager_registerEnemyFactories(
                                EnemyManager_configureWaveSpawning(
                                    GameController_new(PlayerMap, player,
                                        [x |-> 0, y |-> 0, width |-> size, height |-> size]),
                                    1, 60, 2),
                                <<"BasicEnemy">>),
                            1, 1),
                        BasicEnemy_new(159, 232)),
                    240, << >>)
    /\ enemy = Enemy_new("Enemy", "enemy-1", 100, 68, 16, 16, 40, 200, 10)
    /\ skills = SkillManager_new
    /\ now = Epoch
    /\ last = [op |-> "new"]
    /\ hist = NoCalls

NextFrame ==
    \/ GameStart
    \/ GamePause
    \/ GameResume
    \/ GameStop
    \/ \E key \in {"up", "left", "skill1"} : \E value \in BOOLEAN :
          PlayerUpdateInput(key, value)
    \/ GameEnemyTakeDamage(1, 100)
    \/ \E dt \in Dts : GameUpdate(dt)

SpecFrame == InitFrame /\ [][NextFrame]_vars

\* C14: a frame of a running game with an active, living Player leaves no
\* skill flag set.
C14_FlagsCleared ==
    [][(/\ last'.op = "GameController.update"
        /\ game.isRunning /\ ~game.isPaused
        /\ player.active /\ Player_isAlive(player))
          => \A k \in 1..Len(SkillKeys) : ~player'.input[SkillKeys[k]]]_vars

\* C16: in a frame of a running game the enemies are updated, in order and
\* once each, against the Player as it stands after its own update; the
\* dead are then removed; the wave, if due, then spawns into the room the
\* survivors leave under the cap, and the enemies it spawns are as their
\* factory built them; and the camera is the one updateCamera derives from
\* the Player after the frame.
C16_FrameOrder ==
    [][(last'.op = "GameController.update" /\ game.isRunning /\ ~game.isPaused) =>
        LET moved == [player' EXCEPT !.health = player.health]
            r == GameController_updateEnemies(game.enemies, 1, last'.count, moved,
                                              MapProbe(game.gameMap))
            alive == SelectSeq(r.enemies, Enemy_isAlive)
            cap == game.manager.maxConcurrentEnemies
        IN  /\ player' = r.player
            /\ Len(game'.enemies) >= Len(alive)
            /\ SubSeq(game'.enemies, 1, Len(alive)) = alive
            /\ Len(game'.enemies) - Len(alive) =
                  IF WaveDue(game, last'.count) /\ Len(game.manager.spawnPoints) > 0
                        /\ Len(game.manager.enemyFactories) > 0
                  THEN Max(0, Min(game.manager.enemiesPerWave, cap - Len(alive)))
                  ELSE 0
            /\ \A i \in (Len(alive) + 1)..Len(game'.enemies) :
                  \E point \in 1..Len(game.manager.spawnPoints),
                     factory \in 1..Len(game.manager.enemyFactories) :
                      game'.enemies[i] =
                          EnemyFactory(game.manager.enemyFactories[factory],
                                       game.manager.spawnPoints[point].x,
                                       game.manager.spawnPoints[point].y)
            /\ game'.camera = updateCamera(game.camera, player',
                                           game.gameMap.width * TILE_SIZE,
                                           game.gameMap.height * TILE_SIZE)]_vars

\* C16 witness: after a frame of a running game an enemy stands idle at the
\* spawn point with the living Player within its sight, as it was spawned
C16_Witness ==
    /\ last.op = "GameController.update"
    /\ game.isRunning /\ ~game.isPaused
    /\ \E i \in 1..Len(game.enemies) :
          /\ game.enemies[i].state = "IDLE"
          /\ game.enemies[i].x = game.manager.spawnPoints[1].x
          /\ game.enemies[i].y = game.manager.spawnPoints[1].y
          /\ Enemy_canDetectPlayer(game.enemies[i], player)

\* C17: a GameController.update changes neither the game nor the Player
\* unless the last start was not followed by a stop and the last of start,
\* pause and resume was not a pause; and when that is so, a frame of
\* positive deltaTime does change the game.
C17_UpdateGated ==
    [][last'.op = "GameController.update" =>
        IF hist.started /\ ~hist.paused
        THEN last'.count > 0 => game' # game
        ELSE game' = game /\ player' = player]_vars

\* C17 witness: a frame of positive deltaTime on a game that is neither
\* running nor paused, a direction key held and the Player where it started
C17_Witness ==
    /\ last.op = "GameController.update"
    /\ last.count > 0
    /\ ~hist.started /\ ~hist.paused
    /\ ~game.isRunning /\ ~game.isPaused
    /\ player.input.left
    /\ player.x = 260

\* the camera after a frame of a running game lies within the map
C18_InMap ==
    /\ 0 <= game'.camera.x
    /\ game'.camera.x <= game.gameMap.width * TILE_SIZE - game'.camera.width
    /\ 0 <= game'.camera.y
    /\ game'.camera.y <= game.gameMap.height * TILE_SIZE - game'.camera.height

\* C18 as stated: after every frame of a running game, whatever the sizes of
\* map and camera, the camera lies within the map.
C18_CameraInMap ==
    [][(last'.op = "GameController.update" /\ game.isRunning /\ ~game.isPaused)
          => C18_InMap]_vars

\* C18 as amended: after every frame of a running game, on each axis, a
\* camera no larger than the map lies within the map and is centred on the
\* Player's midpoint whenever the centred position lies within the map; a
\* camera larger than the map is at 0.
C18_CameraClamped ==
    [][(last'.op = "GameController.update" /\ game.isRunning /\ ~game.isPaused) =>
        LET c == game'.camera
            mapWidth == game.gameMap.width * TILE_SIZE
            mapHeight == game.gameMap.height * TILE_SIZE
            cx == player'.x + player'.width \div 2 - c.width \div 2
            cy == player'.y + player'.height \div 2 - c.height \div 2
        IN  /\ IF c.width > mapWidth THEN c.x = 0
               ELSE /\ 0 <= c.x /\ c.x <= mapWidth - c.width
                    /\ (0 <= cx /\ cx <= mapWidth - c.width) => c.x = cx
            /\ IF c.height > mapHeight THEN c.y = 0
               ELSE /\ 0 <= c.y /\ c.y <= mapHeight - c.height
                    /\ (0 <= cy /\ cy <= mapHeight - c.height) => c.y = cy]_vars

\* C18 witness: after a frame of a running game a camera smaller than the
\* map is centred on the Player on the x axis, away from both edges, and
\* held at the top edge on the y axis, the Player being above the map
C18_Witness ==
    /\ last.op = "GameController.update"
    /\ game.isRunning /\ ~game.isPaused
    /\ game.camera.width < game.gameMap.width * TILE_SIZE
    /\ game.camera.x = player.x + player.width \div 2 - game.camera.width \div 2
    /\ 0 < game.camera.x
    /\ game.camera.x < game.gameMap.width * TILE_SIZE - game.camera.width
    /\ player.y + player.height \div 2 - game.camera.height \div 2 < 0
    /\ game.camera.y = 0

\* the living enemies of g, in the order the frame keeps them (the frame
\* never changes an enemy's health)
C19_Living(g) == SelectSeq(g.enemies, Enemy_isAlive)

\* C19: in every frame of a running game, an enemy that starts the frame on
\* a position where the map's collision probe is false ends it on a
\* position where the probe is false.
C19_EnemiesKeepOffTrees ==
    [][(last'.op = "GameController.update" /\ game.isRunning /\ ~game.isPaused) =>
        \A i \in 1..Len(C19_Living(game)) :
            \A before \in {C19_Living(game)[i]} : \A after \in {game'.enemies[i]} :
                ~checkCollisionWithMap(before.x, before.y, before.width,
                                       before.height, game.gameMap)
                => ~checkCollisionWithMap(after.x, after.y, after.width,
                                          after.height, game.gameMap)]_vars

\* C20: after every frame of a running game the Player lies within the
\* map: 0 <= x <= mapPixelWidth - width and 0 <= y <= mapPixelHeight - height.
C20_PlayerOnMap ==
    [][(last'.op = "GameController.update" /\ game.isRunning /\ ~game.isPaused) =>
        /\ 0 <= player'.x
        /\ player'.x <= game.gameMap.width * TILE_SIZE - player'.width
        /\ 0 <= player'.y
        /\ player'.y <= game.gameMap.height * TILE_SIZE - player'.height]_vars

-----------------------------------------------------------------------------
(* Claims on the GameController's collection (SpecGame)                    *)

\* C21: any two enemies in the GameController's collection at the same time
\* have different ids, so that removeEnemy(id) removes at most one enemy.
\* (The statement of the claim; the code does not keep it.)
C21_UniqueIds ==
    /\ \A i, j \in 1..Len(game.enemies) :
          i # j => game.enemies[i].id # game.enemies[j].id
    /\ \A i \in 1..Len(game.enemies) :
          Len(GameController_removeEnemy(game, game.enemies[i].id).enemies)
             >= Len(game.enemies) - 1

\* the number of enemies of g for which keep holds
C22_Count(g, keep(_)) == Len(SelectSeq(g.enemies, keep))

\* C22: a frame of a running game (one that spawns no wave, so that the
\* collection only shrinks) removes every enemy whose active flag was false
\* and keeps every enemy that was active and alive; and no other operation
\* on the game removes an enemy.  (The statement of the claim; the code does
\* not keep it.)
C22_InactiveReaped ==
    [][/\ (/\ last'.op = "GameController.update"
           /\ game.isRunning /\ ~game.isPaused
           /\ game'.manager.waveCount = game.manager.waveCount)
             => /\ Len(game'.enemies)
                     <= Len(game.enemies) - C22_Count(game, LAMBDA e : ~e.active)
                /\ Len(game'.enemies)
                     >= C22_Count(game, LAMBDA e : e.active /\ Enemy_isAlive(e))
       /\ last'.op # "GameController.update"
             => Len(game'.enemies) >= Len(game.enemies)]_vars

-----------------------------------------------------------------------------
(* SpecInventory: the drag and drop of the inventory UI (UI.ts)            *)

\* the inventory array of createPlayerState
InventorySize == 15

\* the mouse goes to the inventory slots 0..MaxIndex
MaxIndex == 2

\* the items by id: equipable and equipmentSlot as their constructors set
\* them (an IronSword; an Item constructed for the ring slots; an Item
\* constructed with the defaults, not equipable)
Items ==
    [id \in {"iron_sword", "ring", "potion"} |->
        CASE id = "iron_sword" -> [equipable |-> TRUE, equipmentSlot |-> "main_hand"]
          [] id = "ring"       -> [equipable |-> TRUE, equipmentSlot |-> "ring"]
          [] id = "potion"     -> [equipable |-> FALSE, equipmentSlot |-> "none"]]

\* A slot of the UI is an inventory index or an equipment slot, the other
\* field undefined (-1, "undefined"); draggedItemSource = null is neither.
NoSlot == [inventoryIndex |-> -1, equipmentSlot |-> "undefined"]

\* item.equipable && (item.equipmentSlot === slotType || (item.equipmentSlot
\* === EquipmentSlot.RING && (slotType === 'LEFT_RING' || slotType ===
\* 'RIGHT_RING'))), for an item or null
UI_canEquip(item, slotType) ==
    /\ item # "null"
    /\ Items[item].equipable
    /\ \/ Items[item].equipmentSlot = slotType
       \/ (Items[item].equipmentSlot = "ring" /\ slotType \in {"LEFT_RING", "RIGHT_RING"})

\* UI.handleItemDrop(targetSlot) on the player state s dragged from source
UI_handleItemDrop(s, source, targetSlot) ==
    LET si == source.inventoryIndex
        se == source.equipmentSlot
        ti == targetSlot.inventoryIndex
        te == targetSlot.equipmentSlot
    IN  IF (ti # -1 /\ si = ti) \/ (te # "undefined" /\ se = te) THEN s
        ELSE IF si # -1 /\ ti # -1
        THEN [s EXCEPT !.inventory[ti] = s.inventory[si],
                       !.inventory[si] = s.inventory[ti]]
        ELSE IF si # -1 /\ te # "undefined"
        THEN [s EXCEPT !.equipment[te] = s.inventory[si],
                       !.inventory[si] = s.equipment[te]]
        ELSE IF se # "undefined" /\ ti # -1
        THEN LET inventoryItem == s.inventory[ti]
             IN  [s EXCEPT !.inventory[ti] = s.equipment[se],
                           !.equipment[se] = IF UI_canEquip(inventoryItem, se)
                                             THEN inventoryItem ELSE "null"]
        ELSE IF se # "undefined" /\ te # "undefined"
        THEN IF (se \in {"LEFT_RING", "RIGHT_RING"}) = (te \in {"LEFT_RING", "RIGHT_RING"})
             THEN [s EXCEPT !.equipment[te] = s.equipment[se],
                            !.equipment[se] = s.equipment[te]]
             ELSE s
        ELSE s

\* the item the player state s holds in a slot
ItemIn(s, slot) ==
    IF slot.inventoryIndex # -1 THEN s.inventory[slot.inventoryIndex]
                                ELSE s.equipment[slot.equipmentSlot]

\* UI.handleMouseDown with the mouse over slot (the first slot whose square
\* holds the point), the inventory open
UIMouseDown(slot) ==
    /\ game.isInventoryOpen
    /\ ItemIn(game.player, slot) # "null"
    /\ game' = [game EXCEPT !.isDragging = TRUE,
                            !.draggedItem = ItemIn(game.player, slot),
                            !.draggedItemSource = slot]
    /\ last' = [op |-> "UI.handleMouseDown"]
    /\ UNCHANGED <<enemy, player, hist, skills, now>>

\* UI.handleMouseUp with the mouse over slot, or over no slot (NoSlot)
UIMouseUp(slot) ==
    /\ game.isDragging /\ game.draggedItem # "null" /\ game.draggedItemSource # NoSlot
    /\ \E dropped \in
          {IF slot = NoSlot THEN game.player
           ELSE IF slot.inventoryIndex # -1
                THEN UI_handleItemDrop(game.player, game.draggedItemSource, slot)
           ELSE IF UI_canEquip(game.draggedItem, slot.equipmentSlot)
                THEN UI_handleItemDrop(game.player, game.draggedItemSource, slot)
                ELSE game.player} :
          game' = [game EXCEPT !.player = dropped,
                               !.isDragging = FALSE,
                               !.draggedItem = "null",
                               !.draggedItemSource = NoSlot]
    /\ last' = [op |-> "UI.handleMouseUp"]
    /\ UNCHANGED <<enemy, player, hist, skills, now>>

\* the slots the mouse goes to
MouseSlots ==
    {[inventoryIndex |-> i, equipmentSlot |-> "undefined"] : i \in 0..MaxIndex}
       \cup {[inventoryIndex |-> -1, equipmentSlot |-> t] :
                 t \in {"main_hand", "off_hand", "LEFT_RING", "RIGHT_RING"}}

\* a UI after a render of an open inventory: the player state of
\* createPlayerState (an IronSword in slot 0), or one that also holds a ring
\* and a potion; hist is the set of the items held
InitInventory ==
    /\ \E held \in {<<"iron_sword">>, <<"iron_sword", "ring", "potion">>} :
          /\ game = [player |->
                        [inventory |-> [i \in 0..(InventorySize - 1) |->
                                           IF i < Len(held) THEN held[i + 1] ELSE "null"],
                         equipment |-> [t \in {"head", "body", "main_hand", "off_hand",
                                               "gloves", "LEFT_RING", "RIGHT_RING",
                                               "amulet"} |-> "null"]],
                     isInventoryOpen |-> TRUE, isDragging |-> FALSE,
                     draggedItem |-> "null", draggedItemSource |-> NoSlot]
          /\ hist = {held[i] : i \in 1..Len(held)}
    /\ player = Player_new("player", 0, 0, 16, 16, 2)
    /\ enemy = Enemy_new("Enemy", "enemy-1", 100, 68, 16, 16, 40, 200, 10)
    /\ skills = SkillManager_new
    /\ now = Epoch
    /\ last = [op |-> "new"]

NextInventory ==
    \/ \E slot \in MouseSlots : UIMouseDown(slot)
    \/ \E slot \in MouseSlots \cup {NoSlot} : UIMouseUp(slot)

SpecInventory == InitInventory /\ [][NextInventory]_vars

\* the number of slots of the player state s that hold the item
C23_Held(s, item) ==
    Cardinality({i \in DOMAIN s.inventory : s.inventory[i] = item})
       + Cardinality({t \in DOMAIN s.equipment : s.equipment[t] = item})

\* C23: across the 15 inventory slots and the 8 equipment slots, every item
\* the player state held at the start is held by exactly one slot, and no
\* other item is held, whatever was dragged and dropped.  (The statement of
\* the claim; the code does not keep it.)
C23_ItemsConserved ==
    /\ Cardinality(DOMAIN game.player.inventory) = 15
    /\ Cardinality(DOMAIN game.player.equipment) = 8
    /\ \A item \in DOMAIN Items :
          C23_Held(game.player, item) = IF item \in hist THEN 1 ELSE 0

-----------------------------------------------------------------------------
(* SpecRequest: the request handler of middleware.ts                       *)

\* pathname.startsWith(prefix), on strings held as sequences of characters
String_startsWith(s, prefix) ==
    /\ Len(s) >= Len(prefix)
    /\ SubSeq(s, 1, Len(prefix)) = prefix

\* the handler passed the request on only when the path is not /dashboard
\* itself
clerkMiddleware_handler_ExactPath(userId, url) ==
    IF url.pathname = <<"/", "d", "a", "s", "h", "b", "o", "a", "r", "d">> /\ userId = "null"
    THEN [redirect |-> TRUE,
          location |-> [origin |-> url.origin, pathname |-> <<"/", "s", "i", "g", "n", "-", "u", "p">>,
                        search |-> "", redirect_url |-> url]]
    ELSE [redirect |-> FALSE]

\* the handler given to clerkMiddleware, for a request of url (req.url and
\* req.nextUrl, as origin, pathname and search) by a client whose auth()
\* resolves to userId ("null" when not signed in): the redirect it returns,
\* or none (the request goes on to the page)
clerkMiddleware_handler(userId, url) ==
    IF String_startsWith(url.pathname, <<"/", "d", "a", "s", "h", "b", "o", "a", "r", "d">>) /\ userId = "null"
    THEN [redirect |-> TRUE,
          location |-> [origin |-> url.origin, pathname |-> <<"/", "s", "i", "g", "n", "-", "u", "p">>,
                        search |-> "", redirect_url |-> url]]
    ELSE [redirect |-> FALSE]

\* the pages requested: the home page, the game page (app/game/page.tsx)
\* and a path below it, the dashboard, a path below it and two paths beside
\* it, and the sign-up and sign-in pages; all of them paths config.matcher
\* runs the middleware on
RequestUrls ==
    [origin : {"http://localhost:3000", "https://vibe.example"},
     pathname :
        {<<"/">>,
         <<"/", "g", "a", "m", "e">>,
         <<"/", "g", "a", "m", "e", "/", "p", "l", "a", "y">>,
         <<"/", "d", "a", "s", "h", "b", "o", "a", "r", "d">>,
         <<"/", "d", "a", "s", "h", "b", "o", "a", "r", "d", "/", "s", "e", "t", "t", "i", "n", "g", "s">>,
         <<"/", "d", "a", "s", "h", "b", "o", "a", "r", "d", "s">>,
         <<"/", "d", "a", "s", "h">>,
         <<"/", "s", "i", "g", "n", "-", "u", "p">>,
         <<"/", "s", "i", "g", "n", "-", "i", "n">>},
     search : {"", "?from=home"}]

\* a client requests url: the middleware answers
Request(url) ==
    /\ last' = [op |-> "request", url |-> url,
                response |-> clerkMiddleware_handler(game.userId, url)]
    /\ UNCHANGED <<enemy, player, hist, skills, now, game>>

\* a client, signed in as one of two users or not signed in
InitRequest ==
    /\ \E userId \in {"null", "user_1", "user_2"} : game = [userId |-> userId]
    /\ last = [op |-> "new"]
    /\ hist = NoCalls
    /\ player = Player_new("player", 0, 0, 16, 16, 2)
    /\ enemy = Enemy_new("Enemy", "enemy-1", 100, 68, 16, 16, 40, 200, 10)
    /\ skills = SkillManager_new
    /\ now = Epoch

NextRequest == \E url \in RequestUrls : Request(url)

SpecRequest == InitRequest /\ [][NextRequest]_vars

\* the pathname of the game page
C24_GamePage == <<"/", "g", "a", "m", "e">>

-----------------------------------------------------------------------------
(* Claims on one Enemy's state machine (SpecEnemy)                         *)

\* C25: once an enemy's state is DEAD, no update, takeDamage or
\* setPatrolPoints call changes its state.  (The statement of the claim; the
\* code does not keep it.)
C25_DeadIsTerminal ==
    [][(/\ enemy.state = "DEAD"
        /\ last'.op \in {"Enemy.update", "Enemy.takeDamage", "Enemy.setPatrolPoints"})
          => enemy'.state = "DEAD"]_vars

-----------------------------------------------------------------------------
(* SpecAttack: Skill.use and BasicAttack.execute against candidates        *)

\* the target lists: none, one or two Enemies of health 20.  The Player
\* being at (100, 100), a single candidate stands inside the hit-box on the
\* Player's right, touching that hit-box's far edge, above, left of or below
\* the Player, or far away
CandidateLists ==
    LET made(spot) == Enemy_new("Enemy", "enemy-1", spot[1], spot[2], 16, 16, 40, 200, 20)
    IN  {<< >>}
           \cup {<<made(a)>> : a \in {<<116, 100>>, <<148, 100>>, <<100, 84>>,
                                      <<84, 100>>, <<100, 116>>, <<300, 300>>}}
           \cup {<<made(a), made(b)>> : a, b \in {<<116, 100>>, <<100, 84>>, <<300, 300>>}}

\* skill.use(player, ctx, enemies) on the skill object o, whose execute()
\* reports `effect` (a BasicAttack always reports success); hasEnemies =
\* FALSE is the call without a target list
SkillUseOn(o, effect, hasEnemies) ==
    \E r \in {Skill_use(skills.objects[o], player, now, hasEnemies, game.enemies, effect)} :
        /\ skills' = [skills EXCEPT !.objects[o] = r.skill]
        /\ game' = [game EXCEPT !.enemies = r.enemies]
        /\ last' = [op |-> "Skill.use", skill |-> o, effect |-> effect,
                    enemies |-> hasEnemies, result |-> r.result]
        /\ UNCHANGED <<enemy, player, hist, now>>

\* a 16 x 16 Player at (100, 100) facing any way, a target list, and the two
\* skill objects of InitSkill, neither used yet
InitAttack ==
    /\ \E d \in {"UP", "DOWN", "LEFT", "RIGHT"} :
          player = [Player_new("player", 100, 100, 16, 16, 1) EXCEPT !.direction = d]
    /\ \E enemies \in CandidateLists : game = [present |-> FALSE, enemies |-> enemies]
    /\ skills = [SkillManager_new EXCEPT
                    !.objects = [o \in {"custom", "basicAttack"} |->
                                    IF o = "custom" THEN Skill_new("Custom", 250, 0, 0, 0)
                                                    ELSE BasicAttack_new]]
    /\ now = Epoch
    /\ hist = NoCalls
    /\ last = [op |-> "new"]
    /\ enemy = Enemy_new("Enemy", "enemy-1", 100, 68, 16, 16, 40, 200, 10)

NextAttack ==
    \/ \E k \in 1..2 : ClockAdvances(125 * k)
    \/ \E o \in DOMAIN skills.objects, effect \in BOOLEAN, hasEnemies \in BOOLEAN :
          SkillUseOn(o, effect, hasEnemies)

SpecAttack == InitAttack /\ [][NextAttack]_vars

\* C26: a skill's lastUsed changes only on a use() that returns true, and
\* then to the time of the call; a use() within the cooldown returns false
\* and changes nothing, no candidate being hurt; a use() past the cooldown
\* whose effect fails returns false and leaves lastUsed as it was, so that
\* a use() at that same moment is still not within the cooldown.
C26_StampOnlyOnSuccess ==
    [][/\ \A o \in DOMAIN skills.objects :
             skills'.objects[o].lastUsed # skills.objects[o].lastUsed
                => /\ last'.op = "Skill.use" /\ last'.skill = o /\ last'.result
                   /\ skills'.objects[o].lastUsed = now
       /\ last'.op = "Skill.use" =>
             LET s == skills.objects[last'.skill]
                 within == now - s.lastUsed < s.cooldown
                 fails == s.kind # "BasicAttack" /\ ~last'.effect
             IN  /\ within => (~last'.result /\ skills' = skills /\ game' = game)
                 /\ (~within /\ fails)
                       => /\ ~last'.result
                          /\ skills' = skills
                          /\ ~(now' - skills'.objects[last'.skill].lastUsed < s.cooldown)
                 /\ (~within /\ ~fails)
                       => (last'.result /\ skills'.objects[last'.skill].lastUsed = now)]_vars

\* C26 witness: a use() of the custom skill whose effect failed, made after
\* an earlier successful use and past its cooldown, lastUsed left at the
\* earlier use
C26_Witness ==
    /\ last.op = "Skill.use"
    /\ last.skill = "custom"
    /\ ~last.effect
    /\ ~last.result
    /\ skills.objects["custom"].lastUsed >= Epoch
    /\ now - skills.objects["custom"].lastUsed >= skills.objects["custom"].cooldown

\* the hit-box of a BasicAttack of the given range and width by the Player
\* p: the rectangle `range` deep that starts at p's edge in the facing
\* direction and is `width` broad, centred on p across that direction
C27_HitBox(p, range, width) ==
    LET acrossX == [left |-> p.x + p.width \div 2 - width \div 2,
                    right |-> p.x + p.width \div 2 + width \div 2]
        acrossY == [top |-> p.y + p.height \div 2 - width \div 2,
                    bottom |-> p.y + p.height \div 2 + width \div 2]
    IN  CASE p.direction = "UP" ->
                [left |-> acrossX.left, right |-> acrossX.right,
                 top |-> p.y - range, bottom |-> p.y]
          [] p.direction = "DOWN" ->
                [left |-> acrossX.left, right |-> acrossX.right,
                 top |-> p.y + p.height, bottom |-> p.y + p.height + range]
          [] p.direction = "LEFT" ->
                [left |-> p.x - range, right |-> p.x,
                 top |-> acrossY.top, bottom |-> acrossY.bottom]
          [] p.direction = "RIGHT" ->
                [left |-> p.x + p.width, right |-> p.x + p.width + range,
                 top |-> acrossY.top, bottom |-> acrossY.bottom]

\* the rectangle of e and the box share inner points
C27_Overlaps(e, box) ==
    /\ e.x < box.right /\ box.left < e.x + e.width
    /\ e.y < box.bottom /\ box.top < e.y + e.height

\* C27: a use() of the BasicAttack that passes the cooldown gate returns
\* true and starts the cooldown, with a target list, an empty one or none;
\* given a target list, every candidate whose rectangle strictly overlaps
\* the hit-box has lost exactly the attack's damage (down to 0 at most) and
\* every other candidate is as it was.
C27_HitsBoxOnly ==
    [][(/\ last'.op = "Skill.use"
        /\ last'.skill = "basicAttack"
        /\ now - skills.objects["basicAttack"].lastUsed
              >= skills.objects["basicAttack"].cooldown)
          => LET s == skills.objects["basicAttack"]
                 box == C27_HitBox(player, 32, 32)
             IN  /\ last'.result
                 /\ skills'.objects["basicAttack"].lastUsed = now
                 /\ now' - skills'.objects["basicAttack"].lastUsed < s.cooldown
                 /\ Len(game'.enemies) = Len(game.enemies)
                 /\ ~last'.enemies => game' = game
                 /\ last'.enemies =>
                       \A i \in 1..Len(game.enemies) :
                           \A before \in {game.enemies[i]} : \A after \in {game'.enemies[i]} :
                               IF C27_Overlaps(before, box)
                               THEN /\ after.health = Max(0, before.health - 10)
                                    /\ [after EXCEPT !.health = before.health,
                                                     !.state = before.state] = before
                               ELSE after = before]_vars

\* C27 witness: a BasicAttack just used on two candidates, the one in the
\* hit-box hit for the second time (and dead), the other unhurt
C27_Witness ==
    /\ last.op = "Skill.use"
    /\ last.skill = "basicAttack"
    /\ last.enemies
    /\ last.result
    /\ skills.objects["basicAttack"].lastUsed = now
    /\ Len(game.enemies) = 2
    /\ C27_Overlaps(game.enemies[1], C27_HitBox(player, 32, 32))
    /\ ~C27_Overlaps(game.enemies[2], C27_HitBox(player, 32, 32))
    /\ game.enemies[1].health = 0
    /\ game.enemies[2].health = 20

\* C28: on an update given the player, an ATTACKING base Enemy with the
\* player alive and within attackRange takes attackDamage off the player's
\* health (down to 0 at most); a SkeletonWarrior in that situation does so
\* exactly when its cooldown has run out by that tick; and whenever a
\* SkeletonWarrior lowers the player's health, at least one second of
\* deltaTime has passed since it last did.
C28_AttackCadence ==
    [][last'.op = "Enemy.update" =>
        LET dx == player.x - enemy.x
            dy == player.y - enemy.y
            inRange == dx * dx + dy * dy <= enemy.attackRange * enemy.attackRange
            hits == player'.health = Max(0, player.health - enemy.attackDamage)
            cooldown == IF last'.dt >= enemy.attackCooldown THEN 0
                        ELSE enemy.attackCooldown - last'.dt
        IN  /\ (/\ last'.hasPlayer /\ enemy.state = "ATTACKING"
                /\ player.health > 0 /\ inRange)
                  => IF enemy.kind = "SkeletonWarrior"
                     THEN IF cooldown = 0 THEN hits ELSE player' = player
                     ELSE hits
            /\ (enemy.kind = "SkeletonWarrior" /\ player'.health < player.health)
                  => (hist.sinceHit < 0 \/ hist.sinceHit + last'.dt >= 60)]_vars

\* C28 witness: a SkeletonWarrior that has just landed its second hit, a
\* second or more after the first
C28_Witness ==
    /\ enemy.kind = "SkeletonWarrior"
    /\ enemy.state = "ATTACKING"
    /\ last.op = "Enemy.update"
    /\ last.dt > 0
    /\ hist.sinceHit = 0
    /\ enemy.attackCooldown = 60
    /\ player.health = player.maxHealth - 2 * enemy.attackDamage

\* C29: an update of a living, active CHASING enemy whose player is absent,
\* dead or outside detectionRange leaves it PATROLLING if it has waypoints
\* and IDLE otherwise, at baseSpeed; an update of a CHASING enemy whose
\* living player is within attackRange leaves it ATTACKING where it stood;
\* and an update that starts from an enemy whose speed is baseSpeed whenever
\* it is IDLE or PATROLLING (a fresh enemy is) ends in such an enemy.
C29_Settled(e) == e.state \in {"IDLE", "PATROLLING"} => e.speed = e.baseSpeed

C29_ChaseReverts ==
    [][last'.op = "Enemy.update" =>
        LET chasing == enemy.state = "CHASING" /\ enemy.active /\ Enemy_isAlive(enemy)
            dist2 == DistanceSquared(enemy, player)
            lost == \/ ~last'.hasPlayer
                    \/ player.health <= 0
                    \/ dist2 > enemy.detectionRange * enemy.detectionRange
            reach == /\ last'.hasPlayer
                     /\ player.health > 0
                     /\ dist2 <= enemy.attackRange * enemy.attackRange
        IN  /\ (chasing /\ lost) =>
                  /\ enemy'.state = IF Len(enemy.patrolPoints) > 0
                                    THEN "PATROLLING" ELSE "IDLE"
                  /\ enemy'.speed = enemy.baseSpeed
            /\ (chasing /\ reach) =>
                  /\ enemy'.state = "ATTACKING"
                  /\ enemy'.x = enemy.x /\ enemy'.y = enemy.y
            /\ C29_Settled(enemy) => C29_Settled(enemy')]_vars

\* C29 witness: an enemy with waypoints that chased the player off its
\* route, lost the player and is back PATROLLING at baseSpeed
C29_Witness ==
    /\ last.op = "Enemy.update"
    /\ enemy.state = "PATROLLING"
    /\ Len(enemy.patrolPoints) > 0
    /\ enemy.speed = enemy.baseSpeed
    /\ enemy.y = 256 /\ enemy.x > 170
    /\ player.x = 560

-----------------------------------------------------------------------------
(* SpecPatrol: an enemy on its patrol, ticked for ever, no player in sight *)

\* the patrols, each starting on its first waypoint: a base Enemy (30 px/s)
\* between waypoints 60 and 45 pixels apart, a SkeletonWarrior (3 px/s)
\* between the latter, and a base Enemy sent down a 3-4-5 diagonal past the
\* corner of the interior tree; the Player stands out of every detection
\* range
InitPatrol ==
    /\ \E c \in {[kind |-> "Enemy", route |-> <<[x |-> 170, y |-> 256], [x |-> 110, y |-> 256]>>],
                 [kind |-> "Enemy", route |-> <<[x |-> 170, y |-> 256], [x |-> 125, y |-> 256]>>],
                 [kind |-> "SkeletonWarrior",
                  route |-> <<[x |-> 170, y |-> 256], [x |-> 125, y |-> 256]>>],
                 [kind |-> "Enemy", route |-> <<[x |-> 550, y |-> 545], [x |-> 640, y |-> 665]>>]} :
          /\ enemy = Enemy_setPatrolPoints(
                        EnemyOf([kind |-> c.kind, x |-> c.route[1].x, y |-> c.route[1].y,
                                 isAggressive |-> TRUE]), c.route)
          /\ hist = NoHistory(c.route)
    /\ player = Player_new("player", 560, 256, 16, 16, 2)
    /\ last = Record("new", 0, 0, FALSE, 0)
    /\ Unused

\* the frame's enemy.update(deltaTime, this._player, checkCollision), also
\* called without the player
NextPatrol ==
    \E dt \in Dts, hasPlayer \in BOOLEAN : EnemyUpdate(dt, hasPlayer, MapProbe(EnemyMap))

\* the game loop keeps calling update with a frame's deltaTime (one unit)
SpecPatrol ==
    /\ InitPatrol
    /\ [][NextPatrol]_vars
    /\ WF_vars(\E hasPlayer \in BOOLEAN : EnemyUpdate(60, hasPlayer, MapProbe(EnemyMap)))

\* an update of a PATROLLING enemy that is within 5 pixels of its waypoint
\* and not waiting advances the index by one modulo the number of waypoints
\* and starts the wait, and no other update changes the index; an update of
\* one that is waiting leaves it in place and takes deltaTime off the wait
C30_ArriveAndWait ==
    [][(last'.op = "Enemy.update" /\ enemy.state = "PATROLLING") =>
        LET n == Len(enemy.patrolPoints)
            target == enemy.patrolPoints[enemy.currentPatrolIndex + 1]
            arrives == enemy.patrolTimer <= 0 /\ DistanceSquared(enemy, target) < 25
        IN  /\ arrives =>
                  /\ enemy'.currentPatrolIndex = (enemy.currentPatrolIndex + 1) % n
                  /\ enemy'.patrolTimer = enemy.patrolWaitTime
                  /\ enemy'.x = enemy.x /\ enemy'.y = enemy.y
            /\ ~arrives => enemy'.currentPatrolIndex = enemy.currentPatrolIndex
            /\ enemy.patrolTimer > 0 =>
                  /\ enemy'.x = enemy.x /\ enemy'.y = enemy.y
                  /\ enemy'.patrolTimer = enemy.patrolTimer - last'.dt]_vars

\* the enemy has just arrived at waypoint k of its list: the index has moved
\* on to the next waypoint and the wait has not begun to run down
C30_ArrivedAt(k) ==
    /\ enemy.currentPatrolIndex = k % Len(enemy.patrolPoints)
    /\ enemy.patrolTimer = enemy.patrolWaitTime

C30_AtFirst == C30_ArrivedAt(1)

C30_AtSecond == C30_ArrivedAt(2)

\* the waypoints lie on one horizontal line on which the enemy's rectangle
\* meets no tree
C30_Unobstructed ==
    LET a == hist.route[1]
        b == hist.route[2]
    IN  /\ a.y = b.y
        /\ \A x \in Min(a.x, b.x)..Max(a.x, b.x) :
              ~checkCollisionWithMap(x, a.y, enemy.width, enemy.height, EnemyMap)

\* on such waypoints the enemy arrives at each of the two again and again
C30_VisitsForever == ~C30_Unobstructed \/ ([]<>C30_AtFirst /\ []<>C30_AtSecond)

\* C30: a PATROLLING enemy that arrives at its waypoint (squared distance
\* below 25) advances its index by one modulo the number of waypoints and
\* stays where it is until patrolWaitTime of deltaTime has passed, and with
\* no obstacle and no player in sight it visits its waypoints in turn for
\* ever.
C30_PatrolCycles == C30_ArriveAndWait /\ C30_VisitsForever

-----------------------------------------------------------------------------
(* Further claims on one Enemy's state machine (SpecEnemy)                 *)

\* C31: an enemy that is not aggressive is never CHASING or ATTACKING and
\* the player keeps its full health; and an update of a living, active IDLE
\* enemy leaves it CHASING exactly when it is aggressive and was given a
\* living player within detectionRange, otherwise PATROLLING exactly when
\* it has waypoints, otherwise IDLE.
C31_AggressionGatesDetection ==
    /\ [](~enemy.isAggressive =>
            /\ enemy.state \notin {"CHASING", "ATTACKING"}
            /\ player.health = player.maxHealth)
    /\ [][(/\ last'.op = "Enemy.update"
           /\ enemy.state = "IDLE" /\ enemy.active /\ enemy.health > 0) =>
            LET dx == player.x - enemy.x
                dy == player.y - enemy.y
                seen == /\ enemy.isAggressive
                        /\ last'.hasPlayer
                        /\ player.health > 0
                        /\ dx * dx + dy * dy
                              <= enemy.detectionRange * enemy.detectionRange
            IN  /\ enemy'.state = "CHASING" <=> seen
                /\ ~seen => (enemy'.state = "PATROLLING"
                               <=> Len(enemy.patrolPoints) > 0)
                /\ enemy'.state \in {"IDLE", "PATROLLING", "CHASING"}]_vars

\* C31 witness: an enemy that is not aggressive was updated with the living
\* player within its detectionRange and went on with its patrol instead
C31_Witness ==
    /\ ~enemy.isAggressive
    /\ last.op = "Enemy.update" /\ last.hasPlayer
    /\ player.health > 0
    /\ DistanceSquared(enemy, player) <= enemy.detectionRange * enemy.detectionRange
    /\ enemy.state = "PATROLLING"
    /\ enemy.currentPatrolIndex = 1

\* C32: once the player's health is 0 no step raises or lowers it; and an
\* update tick that starts with the player dead leaves an enemy that was
\* CHASING or ATTACKING IDLE or PATROLLING at baseSpeed, and leaves no enemy
\* CHASING or ATTACKING.
C32_DeadPlayerEndsFight ==
    [][player.health = 0 =>
        /\ player'.health = 0
        /\ last'.op = "Enemy.update" =>
              /\ enemy.state \in {"CHASING", "ATTACKING"} =>
                    /\ enemy'.state \in {"IDLE", "PATROLLING"}
                    /\ enemy'.speed = enemy.baseSpeed
              /\ enemy'.state \notin {"CHASING", "ATTACKING"}]_vars

\* C32 witness: the enemy stands within reach of the player it has killed,
\* updated with that player, and is back IDLE or PATROLLING at baseSpeed
C32_Witness ==
    /\ player.health = 0
    /\ last.op = "Enemy.update" /\ last.hasPlayer
    /\ DistanceSquared(enemy, player) <= enemy.attackRange * enemy.attackRange
    /\ enemy.state \in {"IDLE", "PATROLLING"}
    /\ enemy.speed = enemy.baseSpeed
    /\ enemy.health > 0

-----------------------------------------------------------------------------
(* Further claims on the wave timer (SpecWave)                             *)

\* C33: with timeBetweenWaves >= 0, every EnemyManager.update with a
\* positive deltaTime brings the next wave nearer: it triggers spawnWave
\* (waveCount grows by one) or it leaves less time on the wave timer, so
\* that the waves never stop.
C33_WavesNeverStop ==
    [][(/\ last'.op = "EnemyManager.update"
        /\ last'.dt > 0
        /\ game.manager.timeBetweenWaves >= 0) =>
          \/ game'.manager.waveCount = game.manager.waveCount + 1
          \/ game'.manager.waveTimer < game.manager.waveTimer]_vars

-----------------------------------------------------------------------------
(* Further claims on Player.update (SpecPlayer)                            *)

\* C34: a Player that starts where the map's probe is false is, after any
\* Player.update ticks with that probe, where the probe is false: its
\* rectangle overlaps no TREE tile.
C34_PlayerKeepsOffTrees ==
    ~checkCollisionWithMap(player.x, player.y, player.width, player.height, PlayerMap)

\* C34 witness: right and down pressed diagonally above the interior tree;
\* the X step was free and, from the new X, the Y step ran into the tree
C34_Witness ==
    /\ last.op = "Player.update"
    /\ last.probe
    /\ last.dt > 0
    /\ Player_isAlive(player)
    /\ player.input.right /\ player.input.down
    /\ ~player.input.left /\ ~player.input.up
    /\ player.x = hist.x + player.speed * last.dt
    /\ player.y = hist.y
    /\ ~checkCollisionWithMap(hist.x, hist.y + player.speed * last.dt,
                              player.width, player.height, PlayerMap)
    /\ checkCollisionWithMap(player.x, player.y + player.speed * last.dt,
                             player.width, player.height, PlayerMap)

-----------------------------------------------------------------------------
(* Further claims on the patrol (SpecPatrol)                               *)

\* C35: an enemy that starts its patrol where the map's probe is false is,
\* after any update ticks given that probe, where the probe is false,
\* diagonal steps included.
C35_PatrolKeepsOffTrees ==
    ~checkCollisionWithMap(enemy.x, enemy.y, enemy.width, enemy.height, EnemyMap)

-----------------------------------------------------------------------------
(* Further claims on one Enemy's state machine, continued (SpecEnemy)      *)

\* C36: an Enemy.update that lowers the player's health started with the
\* enemy ATTACKING and lowers it by min(attackDamage, health); an update
\* that started in any other state, the one that turns CHASING into
\* ATTACKING included, leaves the player as it was.
C36_OnlyAttackingHurts ==
    [][last'.op = "Enemy.update" =>
        /\ player'.health <= player.health
        /\ player'.health < player.health =>
              /\ enemy.state = "ATTACKING"
              /\ player.health - player'.health
                    = Min(enemy.attackDamage, player.health)
        /\ enemy.state # "ATTACKING" => player' = player]_vars

\* C36 witness: the update that has just turned the chasing enemy ATTACKING
\* beside the player, whose health is untouched
C36_Witness ==
    /\ last.op = "Enemy.update" /\ last.hasPlayer
    /\ enemy.state = "ATTACKING"
    /\ enemy.kind = "Enemy"
    /\ player.health = player.maxHealth
    /\ DistanceSquared(enemy, player) <= enemy.attackRange * enemy.attackRange

\* C38: whatever setPatrolPoints and update calls were made, an enemy that
\* is PATROLLING or IDLE has speed = baseSpeed.
C38_PatrolsAtBaseSpeed ==
    enemy.state \in {"IDLE", "PATROLLING"} => enemy.speed = enemy.baseSpeed

\* C37: whatever setPatrolPoints and update calls were made, the patrol
\* index of an enemy with waypoints is an index into its list.
C37_IndexInList ==
    Len(enemy.patrolPoints) > 0 =>
        /\ 0 <= enemy.currentPatrolIndex
        /\ enemy.currentPatrolIndex < Len(enemy.patrolPoints)

-----------------------------------------------------------------------------
(* SpecManager: the SkillManager's map of skills and its equip slots       *)

\* The _skills Map keeps its keys in insertion order, which getSkillId
\* iterates in: here the manager carries the keys in that order as `order`
\* beside `ids`.

\* SkillManager.addSkill(id, skill): Map.set, a new key going to the end
SkillManager_addSkill(m, id, o) ==
    [m EXCEPT !.ids = [i \in DOMAIN m.ids \cup {id} |->
                          IF i = id THEN o ELSE m.ids[i]],
              !.order = IF id \in DOMAIN m.ids THEN m.order
                                               ELSE Append(m.order, id)]

\* SkillManager.unequipSkill(slot)
SkillManager_unequipSkill(m, slot) ==
    IF slot >= 0 /\ slot < Len(m.equipped)
    THEN [m EXCEPT !.equipped[slot + 1] = "null"]
    ELSE m

\* SkillManager.unequipSkillById(id): every slot whose skill getSkillId finds
\* under id, i.e. whose skill's first key in the Map's order is id
SkillManager_unequipSkillById(m, id) ==
    LET keysOf(o) == SelectSeq(m.order, LAMBDA i : m.ids[i] = o)
        getSkillId(o) == IF Len(keysOf(o)) > 0 THEN Head(keysOf(o)) ELSE "null"
    IN  [m EXCEPT !.equipped =
            [i \in 1..Len(m.equipped) |->
                IF m.equipped[i] # "null" /\ getSkillId(m.equipped[i]) = id
                THEN "null" ELSE m.equipped[i]]]

\* SkillManager.removeSkill(id): unequipSkillById, then Map.delete
SkillManager_removeSkill(m, id) ==
    LET u == SkillManager_unequipSkillById(m, id)
    IN  [u EXCEPT !.ids = [i \in DOMAIN u.ids \ {id} |-> u.ids[i]],
                  !.order = SelectSeq(u.order, LAMBDA i : i # id)]

\* skillManager.addSkill(id, skill) with the skill object o; hist[id] is the
\* set of objects stored under id since id was last removed
SkillManagerAddSkill(id, o) ==
    /\ skills' = SkillManager_addSkill(skills, id, o)
    /\ hist' = [hist EXCEPT ![id] = hist[id] \cup {o}]
    /\ last' = [op |-> "SkillManager.addSkill", id |-> id, slot |-> 0, result |-> TRUE]
    /\ UNCHANGED <<enemy, player, now, game>>

\* skillManager.removeSkill(id)
SkillManagerRemoveSkill(id) ==
    /\ skills' = SkillManager_removeSkill(skills, id)
    /\ hist' = [hist EXCEPT ![id] = {}]
    /\ last' = [op |-> "SkillManager.removeSkill", id |-> id, slot |-> 0, result |-> TRUE]
    /\ UNCHANGED <<enemy, player, now, game>>

\* skillManager.unequipSkill(slot)
SkillManagerUnequipSkill(slot) ==
    /\ skills' = SkillManager_unequipSkill(skills, slot)
    /\ last' = [op |-> "SkillManager.unequipSkill", id |-> "", slot |-> slot,
                result |-> TRUE]
    /\ UNCHANGED <<enemy, player, hist, now, game>>

\* skillManager.unequipSkillById(id)
SkillManagerUnequipSkillById(id) ==
    /\ skills' = SkillManager_unequipSkillById(skills, id)
    /\ last' = [op |-> "SkillManager.unequipSkillById", id |-> id, slot |-> 0,
                result |-> TRUE]
    /\ UNCHANGED <<enemy, player, hist, now, game>>

\* a new SkillManager (its BasicAttack added as 'basicAttack' and equipped in
\* slot 0) and a second skill object not yet added
InitManager ==
    /\ skills = [objects  |-> [o \in {"custom", "basicAttack"} |->
                                  IF o = "custom" THEN Skill_new("Custom", 250, 0, 0, 0)
                                                  ELSE BasicAttack_new],
                 ids      |-> SkillManager_new.ids,
                 order    |-> <<"basicAttack">>,
                 equipped |-> SkillManager_new.equipped]
    /\ hist = [id \in {"basicAttack", "custom"} |->
                  IF id = "basicAttack" THEN {"basicAttack"} ELSE {}]
    /\ now = Epoch
    /\ last = [op |-> "new", id |-> "", slot |-> 0, result |-> TRUE]
    /\ enemy = Enemy_new("Enemy", "enemy-1", 100, 68, 16, 16, 40, 200, 10)
    /\ player = Player_new("player", 68, 68, 16, 16, 1)
    /\ game = NoGame

NextManager ==
    \/ \E id \in {"basicAttack", "custom"}, o \in {"basicAttack", "custom"} :
          SkillManagerAddSkill(id, o)
    \/ \E id \in {"basicAttack", "custom"} : SkillManagerRemoveSkill(id)
    \/ \E id \in {"basicAttack", "custom"}, slot \in -1..1 :
          SkillManagerEquipSkill(id, slot)
    \/ \E slot \in -1..2 : SkillManagerUnequipSkill(slot)
    \/ \E id \in {"basicAttack", "custom"} : SkillManagerUnequipSkillById(id)

SpecManager == InitManager /\ [][NextManager]_vars

\* every skill in an equip slot is stored in the map under some id
C39_EquippedRegistered ==
    \A i \in 1..Len(skills.equipped) :
        skills.equipped[i] # "null" =>
            \E id \in DOMAIN skills.ids : skills.ids[id] = skills.equipped[i]

\* C39: after any addSkill, removeSkill, equipSkill, unequipSkill and
\* unequipSkillById calls every skill in an equip slot is stored in the map
\* under some id, and a removeSkill(id) leaves no slot holding a skill that
\* was stored under id, a skill addSkill has since replaced included.
C39_SlotsFollowTheMap ==
    /\ []C39_EquippedRegistered
    /\ [][last'.op = "SkillManager.removeSkill" =>
            \A i \in 1..Len(skills'.equipped) :
                skills'.equipped[i] \notin hist[last'.id]]_vars

-----------------------------------------------------------------------------
(* SpecInput: skill keys, syncSkillInputsToPlayer and Player.update        *)

\* the keys this specification presses
InputKeys == {"1", "2", " "}

SkillKeySet == {SkillKeys[k] : k \in 1..Len(SkillKeys)}

\* handleKeyDown({key}) on a skill key: playerRef.current.skills.skillN =
\* true, the space bar being a second key for skill1. hist.pressed counts
\* the key-downs that turned a flag on
HandleKeyDown(key) ==
    \E flag \in {IF key = "1" \/ key = " " THEN "skill1"
                 ELSE IF key = "2" THEN "skill2"
                 ELSE IF key = "3" THEN "skill3"
                 ELSE "skill4"} :
        /\ hist.pressed[flag] < MaxCount
        /\ game' = [game EXCEPT !.skills[flag] = TRUE]
        /\ hist' = IF game.skills[flag] THEN hist
                   ELSE [hist EXCEPT !.pressed[flag] = @ + 1]
        /\ last' = [op |-> "handleKeyDown", ctx |-> FALSE]
        /\ UNCHANGED <<enemy, player, skills, now>>

\* syncSkillInputsToPlayer(player, state): updateInput with the four flags
\* as they are, true or false, then the state's flags reset
SyncSkillInputsToPlayer ==
    /\ player' = [player EXCEPT
                    !.input = [k \in DOMAIN player.input |->
                                  IF k \in SkillKeySet THEN game.skills[k]
                                  ELSE player.input[k]]]
    /\ game' = [game EXCEPT !.skills = [k \in SkillKeySet |-> FALSE]]
    /\ last' = [op |-> "syncSkillInputsToPlayer", ctx |-> FALSE]
    /\ UNCHANGED <<enemy, hist, skills, now>>

\* player.update(deltaTime, checkCollision, [enemy], ctx?); hist.used counts
\* the calls of SkillManager.useSkill it makes, one per set flag
InputPlayerUpdate(dt, hasCtx) ==
    LET r == Player_update(player, dt, MapProbe(PlayerMap), hasCtx, <<enemy>>,
                           hasCtx, skills, now, TRUE)
    IN  /\ player' = r.player
        /\ skills' = r.manager
        /\ enemy' = r.enemies[1]
        /\ hist' = IF hasCtx /\ player.active /\ Player_isAlive(player)
                   THEN [hist EXCEPT !.used = [k \in SkillKeySet |->
                                   @[k] + IF player.input[k] THEN 1 ELSE 0]]
                   ELSE hist
        /\ last' = [op |-> "Player.update", ctx |-> hasCtx]
        /\ UNCHANGED <<now, game>>

\* the Player and Enemy of InitPlayer, and a PlayerState with no key pressed
InitInput ==
    /\ player = Player_new("player", 68, 68, 16, 16, 1)
    /\ enemy = Enemy_new("Enemy", "enemy-1", 100, 68, 16, 16, 40, 200, 10)
    /\ skills = SkillManager_new
    /\ now = Epoch
    /\ last = [op |-> "new", ctx |-> FALSE]
    /\ hist = [pressed |-> [k \in SkillKeySet |-> 0],
               used |-> [k \in SkillKeySet |-> 0]]
    /\ game = [skills |-> [k \in SkillKeySet |-> FALSE]]

NextInput ==
    \/ \E key \in InputKeys : HandleKeyDown(key)
    \/ SyncSkillInputsToPlayer
    \/ \E dt \in Dts, hasCtx \in BOOLEAN : InputPlayerUpdate(dt, hasCtx)
    \/ ClockAdvances(500)

SpecInput == InitInput /\ [][NextInput]_vars

\* no skill has been dispatched more often than its key turned its flag on
C40_AtMostOnce ==
    \A k \in SkillKeySet : hist.used[k] <= hist.pressed[k]

\* a sync leaves every flag the player already carries in place
C40_SyncKeepsTrigger ==
    last'.op = "syncSkillInputsToPlayer" =>
        \A k \in SkillKeySet : player.input[k] => player'.input[k]

\* an update with a render context dispatches each flag the player carries
\* once and leaves none set
C40_TickDispatches ==
    (last'.op = "Player.update" /\ last'.ctx) =>
        \A k \in SkillKeySet :
            /\ hist'.used[k] = hist.used[k] + IF player.input[k] THEN 1 ELSE 0
            /\ ~player'.input[k]

\* C40: in every interleaving of skill key-downs, syncSkillInputsToPlayer
\* calls and Player.update ticks, a key-down that sets a flag leads to at
\* most one useSkill dispatch, the update with a render context after the
\* sync that carried the flag makes exactly that one dispatch, and a second
\* sync before that update does not drop the flag the player carries
C40_TriggerDispatchedOnce ==
    /\ []C40_AtMostOnce
    /\ [][C40_SyncKeepsTrigger]_vars
    /\ [][C40_TickDispatches]_vars

\* the two halves the code keeps: never more dispatches than triggers, and
\* every carried flag dispatched once by the update with a context
C40_DispatchHalf == []C40_AtMostOnce /\ [][C40_TickDispatches]_vars

=============================================================================
